---------------------------- MODULE Spec2Model ----------------------------
(***************************************************************************)
(* The ranked index of opencode-toolbox (BM25Index, src/unnamed/part_003,  *)
(* second version of the class, lines 152-444) as a state machine: the     *)
(* index's maps and aggregates, the synchronous operations, and the        *)
(* chunked asynchronous add whose yield points let other calls interleave; *)
(* and the regex search of the same file (searchWithRegex, lines 446-540). *)
(***************************************************************************)
EXTENDS Integers, Sequences, FiniteSets, TLC

(***************************************************************************)
(* Bounds of the model.                                                    *)
(***************************************************************************)
\* longest entry list handed to a bulk operation
MaxBatch == 2
\* largest chunk size handed to addToolsAsync / indexToolsAsync
MaxChunk == 2
\* largest limit handed to search
MaxLimit == 2
\* longest entry list handed to a chunked add when only chunked adds run
MaxLong == 4

(***************************************************************************)
(* Text.  A string is a sequence of one-character strings.                 *)
(***************************************************************************)
LowerChars == {"a", "b", "c", "z", "o", "p", "t", "i", "n", "l", "q", "r"}
UpperChars == {"A", "B", "O", "P", "T", "I", "N", "L"}
OtherWordChars == {"_"}
SpaceChars == {" "}
PunctChars == {"-", ","}

\* String.prototype.toLowerCase, one character
ToLowerChar(c) ==
    CASE c = "A" -> "a"
      [] c = "B" -> "b"
      [] c = "O" -> "o"
      [] c = "P" -> "p"
      [] c = "T" -> "t"
      [] c = "I" -> "i"
      [] c = "N" -> "n"
      [] c = "L" -> "l"
      [] OTHER -> c

\* the class \w of the regular expression /[^\w\s]/g
IsWordChar(c) == c \in LowerChars \cup UpperChars \cup OtherWordChars

\* the class \s
IsSpaceChar(c) == c \in SpaceChars

\* text.toLowerCase()
ToLowerCase(text) == [i \in 1..Len(text) |-> ToLowerChar(text[i])]

\* .replace(/[^\w\s]/g, " ")
ReplacePunct(text) ==
    [i \in 1..Len(text) |->
        IF IsWordChar(text[i]) \/ IsSpaceChar(text[i]) THEN text[i] ELSE " "]

\* .split(/\s+/): the pieces between maximal runs of whitespace, the empty
\* piece before a leading run and after a trailing run included
RECURSIVE SplitFrom(_, _, _, _)
SplitFrom(text, i, cur, inWs) ==
    IF i > Len(text) THEN <<cur>>
    ELSE IF IsSpaceChar(text[i])
         THEN IF inWs THEN SplitFrom(text, i + 1, cur, TRUE)
              ELSE <<cur>> \o SplitFrom(text, i + 1, <<>>, TRUE)
         ELSE SplitFrom(text, i + 1, Append(cur, text[i]), FALSE)

SplitWs(text) == SplitFrom(text, 1, <<>>, FALSE)

\* mutant of NonEmpty: the empty pieces are kept as tokens
NonEmptyKeepsAll(pieces) == pieces

\* .filter(token => token.length > 0)
NonEmpty(pieces) == SelectSeq(pieces, LAMBDA p : Len(p) > 0)

\* tokenize(text)
Tokenize(text) == NonEmpty(SplitWs(ReplacePunct(ToLowerCase(text))))

(***************************************************************************)
(* Numbers.  avgDocLength is the quotient totalTokens / totalDocs of two   *)
(* small integers; it is kept as the reduced fraction, so that two         *)
(* averages are equal exactly when the two quotients are.                  *)
(***************************************************************************)
RECURSIVE Gcd(_, _)
Gcd(a, b) == IF b = 0 THEN a ELSE Gcd(b, a % b)

\* the number 0, as avgDocLength holds it
ZeroAvg == [num |-> 0, den |-> 1]

\* totalTokens / totalDocs, for totalDocs > 0
Quotient(n, d) == [num |-> n \div Gcd(n, d), den |-> d \div Gcd(n, d)]

Range(seq) == {seq[i] : i \in 1..Len(seq)}

(***************************************************************************)
(* The index.  documents is a Map, which keeps insertion order: a sequence *)
(* of [idString, tokens, tool].  docFreqs and docLengths are Maps that are *)
(* never iterated: functions.                                              *)
(***************************************************************************)
\* new BM25Index()
EmptyIndex ==
    [documents |-> <<>>, docFreqs |-> <<>>, docLengths |-> <<>>,
     avgDocLength |-> ZeroAvg, totalDocs |-> 0, totalTokens |-> 0]

\* the keys of this.documents
DocIds(idx) == {idx.documents[i].idString : i \in 1..Len(idx.documents)}

\* has(idString)
Has(idx, idString) == idString \in DocIds(idx)

\* this.documents.get(idString), for a key that is present
DocGet(idx, idString) ==
    LET i == CHOOSE i \in 1..Len(idx.documents) :
                 idx.documents[i].idString = idString
    IN  idx.documents[i]

\* map.get(key) || 0
GetOrZero(map, key) == IF key \in DOMAIN map THEN map[key] ELSE 0

\* map.set(key, value)
MapSet(map, key, value) ==
    [k \in DOMAIN map \cup {key} |-> IF k = key THEN value ELSE map[k]]

\* map.delete(key)
MapDelete(map, key) == [k \in DOMAIN map \ {key} |-> map[k]]

\* for (const token of uniqueTokens) docFreqs.set(token, (get || 0) + 1)
DocFreqsAfterAdd(docFreqs, uniqueTokens) ==
    [t \in DOMAIN docFreqs \cup uniqueTokens |->
        IF t \in uniqueTokens THEN GetOrZero(docFreqs, t) + 1 ELSE docFreqs[t]]

\* mutant of DocFreqsAfterRemove: the test is freq < 1, so a count of 1 is
\* decremented to a stored 0
DocFreqsAfterRemoveKeepsZero(docFreqs, uniqueTokens) ==
    LET gone == {t \in uniqueTokens : GetOrZero(docFreqs, t) < 1}
    IN  [t \in DOMAIN docFreqs \ gone |->
            IF t \in uniqueTokens THEN docFreqs[t] - 1 ELSE docFreqs[t]]

\* for (const token of uniqueTokens) if (freq <= 1) delete else set(freq - 1)
DocFreqsAfterRemove(docFreqs, uniqueTokens) ==
    LET gone == {t \in uniqueTokens : GetOrZero(docFreqs, t) <= 1}
    IN  [t \in DOMAIN docFreqs \ gone |->
            IF t \in uniqueTokens THEN docFreqs[t] - 1 ELSE docFreqs[t]]

\* recalculateAvgDocLength()
RecalculateAvgDocLength(idx) ==
    IF idx.totalDocs = 0
    THEN [idx EXCEPT !.avgDocLength = ZeroAvg]
    ELSE [idx EXCEPT !.avgDocLength = Quotient(idx.totalTokens, idx.totalDocs)]

\* recalculateAvgDocLengthIncremental()
RecalculateAvgDocLengthIncremental(idx) ==
    IF idx.totalDocs = 0
    THEN [idx EXCEPT !.avgDocLength = ZeroAvg]
    ELSE [idx EXCEPT !.avgDocLength = Quotient(idx.totalTokens, idx.totalDocs)]

\* mutant of AddToolInternal: the document frequencies are not updated
AddToolInternalKeepsDocFreqs(idx, tool) ==
    IF Has(idx, tool.idString) THEN idx
    ELSE LET tokens == Tokenize(tool.searchableText)
         IN  [idx EXCEPT
                !.documents = Append(@, [idString |-> tool.idString,
                                         tokens |-> tokens, tool |-> tool]),
                !.docLengths = MapSet(@, tool.idString, Len(tokens)),
                !.totalTokens = @ + Len(tokens),
                !.totalDocs = @ + 1]

\* addToolInternal(tool)
AddToolInternal(idx, tool) ==
    IF Has(idx, tool.idString) THEN idx
    ELSE LET tokens == Tokenize(tool.searchableText)
         IN  [idx EXCEPT
                !.documents = Append(@, [idString |-> tool.idString,
                                         tokens |-> tokens, tool |-> tool]),
                !.docLengths = MapSet(@, tool.idString, Len(tokens)),
                !.totalTokens = @ + Len(tokens),
                !.totalDocs = @ + 1,
                !.docFreqs = DocFreqsAfterAdd(@, Range(tokens))]

\* for (const tool of tools) this.addToolInternal(tool)
RECURSIVE AddEach(_, _)
AddEach(idx, tools) ==
    IF tools = <<>> THEN idx
    ELSE AddEach(AddToolInternal(idx, Head(tools)), Tail(tools))

\* addTool(tool)
AddToolOp(idx, tool) ==
    RecalculateAvgDocLengthIncremental(AddToolInternal(idx, tool))

\* addToolsBatch(tools)
AddToolsBatchOp(idx, tools) == RecalculateAvgDocLength(AddEach(idx, tools))

\* mutant of ClearOp: totalTokens is not reset
ClearOpKeepsTotalTokens(idx) ==
    [idx EXCEPT !.documents = <<>>, !.docFreqs = <<>>, !.docLengths = <<>>,
                !.avgDocLength = ZeroAvg, !.totalDocs = 0]

\* clear()
ClearOp(idx) ==
    [idx EXCEPT !.documents = <<>>, !.docFreqs = <<>>, !.docLengths = <<>>,
                !.avgDocLength = ZeroAvg, !.totalDocs = 0, !.totalTokens = 0]

\* indexTools(tools)
IndexToolsOp(idx, tools) == AddToolsBatchOp(ClearOp(idx), tools)

\* mutant of RemoveDoc: this.documents.delete(idString) is missing
RemoveDocKeepsRecord(idx, idString) ==
    LET doc == DocGet(idx, idString)
    IN  RecalculateAvgDocLengthIncremental(
          [idx EXCEPT
             !.docFreqs = DocFreqsAfterRemove(@, Range(doc.tokens)),
             !.totalTokens = @ - Len(doc.tokens),
             !.docLengths = MapDelete(@, idString),
             !.totalDocs = @ - 1])

\* removeTool(idString), for an indexed idString: the index it leaves
RemoveDoc(idx, idString) ==
    LET doc == DocGet(idx, idString)
    IN  RecalculateAvgDocLengthIncremental(
          [idx EXCEPT
             !.docFreqs = DocFreqsAfterRemove(@, Range(doc.tokens)),
             !.totalTokens = @ - Len(doc.tokens),
             !.documents = SelectSeq(@, LAMBDA d : d.idString # idString),
             !.docLengths = MapDelete(@, idString),
             !.totalDocs = @ - 1])

\* removeTool(idString): the index it leaves and the value it returns
RemoveToolOp(idx, idString) ==
    IF ~Has(idx, idString) THEN [index |-> idx, ret |-> FALSE]
    ELSE [index |-> RemoveDoc(idx, idString), ret |-> TRUE]

(***************************************************************************)
(* search.  Scores are numbers scaled by 10^6 and rounded down; Math.log   *)
(* is a table of the arguments the model's index sizes produce.  A score   *)
(* is [nan, val]: nan when the arithmetic produced NaN (0 / 0).            *)
(***************************************************************************)
\* k1 = 1.2, as tenths
K1Tenths == 12
\* b = 0.75, as hundredths
BHundredths == 75
\* the tie threshold 0.0001, scaled by 10^6
TieEpsilon == 100

\* Math.log(k), scaled by 10^6
LogScaled(k) ==
    CASE k = 1 -> 0        [] k = 2 -> 693147   [] k = 3 -> 1098612
      [] k = 4 -> 1386294  [] k = 5 -> 1609438  [] k = 6 -> 1791759
      [] k = 7 -> 1945910  [] k = 8 -> 2079442  [] k = 9 -> 2197225
      [] k = 10 -> 2302585 [] k = 11 -> 2397895 [] k = 12 -> 2484907
      [] k = 13 -> 2564949 [] k = 14 -> 2639057 [] k = 15 -> 2708050
      [] k = 16 -> 2772589

\* Math.log((totalDocs - df + 0.5) / (df + 0.5) + 1)
\*   = log((2 totalDocs + 2) / (2 df + 1))
Idf(totalDocs, df) == LogScaled(2 * totalDocs + 2) - LogScaled(2 * df + 1)

\* (a * up) / down rounded down, without the intermediate product a * up:
\* the quotient up / down is reduced first
MulDiv(a, up, down) ==
    LET u == up \div Gcd(up, down)
        d == down \div Gcd(up, down)
    IN  (a \div d) * u + ((a % d) * u) \div d

\* doc.tokens.filter(t => t === token).length
TermFreq(tokens, token) == Cardinality({i \in 1..Len(tokens) : tokens[i] = token})

\* idf * (numerator / denominator) for one query token, with
\*   numerator = tf * (k1 + 1)
\*   denominator = tf + k1 * (1 - b + b * (docLength / avgDocLength))
\* over the common denominator 1000 * avg.num.  A zero average makes
\* docLength / avgDocLength Infinity (the quotient is 0) or, for an empty
\* document, NaN.
Contribution(idx, doc, token) ==
    LET df == GetOrZero(idx.docFreqs, token)
        tf == TermFreq(doc.tokens, token)
        dl == idx.docLengths[doc.idString]
        avg == idx.avgDocLength
        up == tf * (K1Tenths + 10) * 100 * avg.num
        down == 1000 * avg.num * tf
                + K1Tenths * ((100 - BHundredths) * avg.num
                              + BHundredths * dl * avg.den)
    IN  IF df = 0 THEN [nan |-> FALSE, val |-> 0]
        ELSE IF down = 0 THEN [nan |-> TRUE, val |-> 0]
        ELSE [nan |-> FALSE, val |-> MulDiv(Idf(idx.totalDocs, df), up, down)]

\* score += ..., over the query tokens in order
RECURSIVE ScoreFrom(_, _, _, _)
ScoreFrom(idx, doc, queryTokens, score) ==
    IF queryTokens = <<>> THEN score
    ELSE LET c == Contribution(idx, doc, Head(queryTokens))
         IN  ScoreFrom(idx, doc, Tail(queryTokens),
                       [nan |-> score.nan \/ c.nan, val |-> score.val + c.val])

Score(idx, doc, queryTokens) ==
    ScoreFrom(idx, doc, queryTokens, [nan |-> FALSE, val |-> 0])

\* mutant of Scores: the test is score >= 0, so a document with score 0 is kept
ScoresKeepsZero(idx, queryTokens) ==
    LET all == [i \in 1..Len(idx.documents) |->
                   [idString |-> idx.documents[i].idString,
                    score |-> Score(idx, idx.documents[i], queryTokens)]]
    IN  SelectSeq(all, LAMBDA r : ~r.score.nan /\ r.score.val >= 0)

\* if (score > 0) scores.set(idString, score): NaN > 0 is false
Scores(idx, queryTokens) ==
    LET all == [i \in 1..Len(idx.documents) |->
                   [idString |-> idx.documents[i].idString,
                    score |-> Score(idx, idx.documents[i], queryTokens)]]
    IN  SelectSeq(all, LAMBDA r : ~r.score.nan /\ r.score.val > 0)

\* the identifiers of the model, in the order of localeCompare
IdOrder == <<"a", "b", "c", "d">>
IdRank(id) == CHOOSE i \in 1..Len(IdOrder) : IdOrder[i] = id

\* aId.localeCompare(bId)
LocaleCompare(aId, bId) == IdRank(aId) - IdRank(bId)

Abs(x) == IF x < 0 THEN -x ELSE x

\* the comparator handed to sort: negative when a goes first
Compare(a, b) ==
    IF Abs(a.score.val - b.score.val) < TieEpsilon
    THEN LocaleCompare(a.idString, b.idString)
    ELSE b.score.val - a.score.val

\* Array.prototype.sort(compare), as a stable insertion sort: each element is
\* placed behind the last one already placed that does not go after it
RECURSIVE InsertSorted(_, _)
InsertSorted(sorted, x) ==
    IF sorted = <<>> THEN <<x>>
    ELSE IF Compare(sorted[Len(sorted)], x) <= 0 THEN Append(sorted, x)
    ELSE Append(InsertSorted(SubSeq(sorted, 1, Len(sorted) - 1), x),
                sorted[Len(sorted)])

RECURSIVE SortFrom(_, _)
SortFrom(sorted, rest) ==
    IF rest = <<>> THEN sorted
    ELSE SortFrom(InsertSorted(sorted, Head(rest)), Tail(rest))

Sort(entries) == SortFrom(<<>>, entries)

\* .slice(0, limit), for limit >= 0
Slice(seq, limit) == SubSeq(seq, 1, IF limit < Len(seq) THEN limit ELSE Len(seq))

\* text.includes(sub)
Includes(text, sub) ==
    \E i \in 0..(Len(text) - Len(sub)) : SubSeq(text, i + 1, i + Len(sub)) = sub

\* the string literals "optional" and "(optional)"
OptionalWord == <<"o", "p", "t", "i", "o", "n", "a", "l">>
OptionalInParens == <<"(">> \o OptionalWord \o <<")">>

\* array.join(", ")
RECURSIVE Join(_)
Join(strings) ==
    IF strings = <<>> THEN <<>>
    ELSE IF Len(strings) = 1 THEN strings[1]
    ELSE strings[1] \o <<",", " ">> \o Join(Tail(strings))

\* `${tool.id.name}(${argList})`
SignatureOf(tool, argNames) == tool.id.name \o <<"(">> \o Join(argNames) \o <<")">>

\* toSearchResult: arg.description?.includes("optional")
\*                   || arg.description?.includes("(optional)") ? "?" : ""
\* (an arg without description gives undefined, which is falsy)
ArgOfToSearchResult(arg) ==
    IF "description" \in DOMAIN arg
       /\ (Includes(arg.description, OptionalWord)
             \/ Includes(arg.description, OptionalInParens))
    THEN arg.name \o <<"?">>
    ELSE arg.name

\* toSearchResult(tool, score)
ToSearchResult(tool, score) ==
    [tool |-> tool.id, idString |-> tool.idString, score |-> score,
     preview |-> tool.description,
     signature |-> SignatureOf(tool, [i \in 1..Len(tool.args) |->
                                        ArgOfToSearchResult(tool.args[i])])]

\* search(query, limit)
Search(idx, query, limit) ==
    LET queryTokens == Tokenize(query)
    IN  IF Len(queryTokens) = 0 \/ idx.totalDocs = 0 THEN <<>>
        ELSE LET sorted == Slice(Sort(Scores(idx, queryTokens)), limit)
             IN  [i \in 1..Len(sorted) |->
                     ToSearchResult(DocGet(idx, sorted[i].idString).tool,
                                    sorted[i].score)]

(***************************************************************************)
(* searchWithRegex.  A pattern is a sequence of characters over literals,  *)
(* ".", "*", "(" and "[", with the prefix "(?i)" allowed in front; the     *)
(* model's RegExp compiles and matches patterns over these characters as   *)
(* the engine does.  The call returns SearchResult[] | { error }: a record *)
(* with kind "results" or "error"; kind "thrown" stands for an exception   *)
(* leaving the function.  tools is the caller's array after the call.      *)
(***************************************************************************)
MAX_REGEX_LENGTH == 200

\* the fixed-point representation of the number 1 as a score
ScoreScale == 1000000

\* pattern.startsWith(prefix)
StartsWith(text, prefix) ==
    Len(text) >= Len(prefix) /\ SubSeq(text, 1, Len(prefix)) = prefix

\* the string literal "(?i)"
CaseInsensitivePrefix == <<"(", "?", "i", ")">>

\* flags: "i" after the prefix "(?i)", "" otherwise
FlagsOf(pattern) ==
    IF StartsWith(pattern, CaseInsensitivePrefix) THEN "i" ELSE ""

\* searchPattern: pattern.slice(4) after the prefix, the pattern otherwise
SearchPatternOf(pattern) ==
    IF StartsWith(pattern, CaseInsensitivePrefix)
    THEN SubSeq(pattern, 5, Len(pattern))
    ELSE pattern

\* new RegExp(searchPattern, flags) throws a SyntaxError for these patterns
\* when "(" opens a group that is never closed or "[" a class that is never
\* closed (no ")" or "]" follows in them), and when "*" has no atom, or an
\* atom that already has its "*", in front of it
IsSyntaxError(searchPattern) ==
    \E i \in 1..Len(searchPattern) :
        \/ searchPattern[i] \in {"(", "["}
        \/ searchPattern[i] = "*" /\ (i = 1 \/ searchPattern[i - 1] = "*")

\* the atoms of a pattern that compiles: its characters other than "*", each
\* with star when a "*" follows it
AtomsOf(searchPattern) ==
    LET positions == SelectSeq([i \in 1..Len(searchPattern) |-> i],
                               LAMBDA i : searchPattern[i] # "*")
    IN  [k \in 1..Len(positions) |->
            [any |-> searchPattern[positions[k]] = ".",
             ch |-> searchPattern[positions[k]],
             star |-> /\ positions[k] < Len(searchPattern)
                      /\ searchPattern[positions[k] + 1] = "*"]]

\* new RegExp(searchPattern, flags): ok is FALSE when it throws
NewRegExp(searchPattern, flags) ==
    IF IsSyntaxError(searchPattern)
    THEN [ok |-> FALSE, atoms |-> <<>>, flags |-> flags]
    ELSE [ok |-> TRUE, atoms |-> AtomsOf(searchPattern), flags |-> flags]

\* one atom against one character
AtomMatches(atom, c, flags) ==
    \/ atom.any
    \/ atom.ch = c
    \/ flags = "i" /\ ToLowerChar(atom.ch) = ToLowerChar(c)

\* the atoms from the k-th on match the text from position j on
RECURSIVE MatchHere(_, _, _, _)
MatchHere(regex, k, text, j) ==
    IF k > Len(regex.atoms) THEN TRUE
    ELSE IF regex.atoms[k].star
         THEN \E n \in 0..(Len(text) - j + 1) :
                  /\ \A m \in j..(j + n - 1) :
                        AtomMatches(regex.atoms[k], text[m], regex.flags)
                  /\ MatchHere(regex, k + 1, text, j + n)
         ELSE /\ j <= Len(text)
              /\ AtomMatches(regex.atoms[k], text[j], regex.flags)
              /\ MatchHere(regex, k + 1, text, j + 1)

\* regex.test(text): a match starting anywhere
Test(regex, text) == \E j \in 1..(Len(text) + 1) : MatchHere(regex, 1, text, j)

\* generateSignature: desc = arg.description?.toLowerCase() || "",
\*   optional = desc.includes("optional") || desc.includes("(optional)")
ArgOfGenerateSignature(arg) ==
    LET desc == IF "description" \in DOMAIN arg
                THEN ToLowerCase(arg.description) ELSE <<>>
    IN  IF Includes(desc, OptionalWord) \/ Includes(desc, OptionalInParens)
        THEN arg.name \o <<"?">>
        ELSE arg.name

\* generateSignature(tool)
GenerateSignature(tool) ==
    SignatureOf(tool, [i \in 1..Len(tool.args) |->
                          ArgOfGenerateSignature(tool.args[i])])

\* results.sort((a, b) => a.tool.idString.localeCompare(b.tool.idString)),
\* as a stable insertion sort
RECURSIVE InsertByIdString(_, _)
InsertByIdString(sorted, x) ==
    IF sorted = <<>> THEN <<x>>
    ELSE IF LocaleCompare(sorted[Len(sorted)].tool.idString, x.tool.idString) <= 0
         THEN Append(sorted, x)
    ELSE Append(InsertByIdString(SubSeq(sorted, 1, Len(sorted) - 1), x),
                sorted[Len(sorted)])

RECURSIVE SortByIdStringFrom(_, _)
SortByIdStringFrom(sorted, rest) ==
    IF rest = <<>> THEN sorted
    ELSE SortByIdStringFrom(InsertByIdString(sorted, Head(rest)), Tail(rest))

SortByIdString(results) == SortByIdStringFrom(<<>>, results)

\* for (const tool of tools) if (regex.test(...)) results.push({tool, score: 1})
Matches(regex, tools) ==
    LET all == [i \in 1..Len(tools) |-> [tool |-> tools[i], score |-> ScoreScale]]
    IN  SelectSeq(all, LAMBDA r : Test(regex, r.tool.searchableText))

\* what searchWithRegex returns once the pattern has compiled
RegexResults(regex, tools, limit) ==
    LET sorted == Slice(SortByIdString(Matches(regex, tools)), limit)
    IN  [i \in 1..Len(sorted) |->
            [tool |-> sorted[i].tool.id, idString |-> sorted[i].tool.idString,
             score |-> sorted[i].score, preview |-> sorted[i].tool.description,
             signature |-> GenerateSignature(sorted[i].tool)]]

RegexError(code, tools) == [kind |-> "error", code |-> code, tools |-> tools]

\* mutant of SearchWithRegex: new RegExp is called outside the try block
SearchWithRegexUnguarded(tools, pattern, limit) ==
    LET regex == NewRegExp(SearchPatternOf(pattern), FlagsOf(pattern))
    IN  IF Len(pattern) > MAX_REGEX_LENGTH
        THEN RegexError("pattern_too_long", tools)
        ELSE IF ~regex.ok THEN [kind |-> "thrown", tools |-> tools]
        ELSE [kind |-> "results",
              results |-> RegexResults(regex, tools, limit), tools |-> tools]

\* mutant of SearchWithRegex: the length test is >=
SearchWithRegexRejectsAtMax(tools, pattern, limit) ==
    LET regex == NewRegExp(SearchPatternOf(pattern), FlagsOf(pattern))
    IN  IF Len(pattern) >= MAX_REGEX_LENGTH
        THEN RegexError("pattern_too_long", tools)
        ELSE IF ~regex.ok THEN RegexError("invalid_pattern", tools)
        ELSE [kind |-> "results",
              results |-> RegexResults(regex, tools, limit), tools |-> tools]

\* mutant of SearchWithRegex: the matches are not sorted
SearchWithRegexUnsorted(tools, pattern, limit) ==
    LET regex == NewRegExp(SearchPatternOf(pattern), FlagsOf(pattern))
    IN  IF Len(pattern) > MAX_REGEX_LENGTH
        THEN RegexError("pattern_too_long", tools)
        ELSE IF ~regex.ok THEN RegexError("invalid_pattern", tools)
        ELSE [kind |-> "results",
              results |->
                 LET cut == Slice(Matches(regex, tools), limit)
                 IN  [i \in 1..Len(cut) |->
                         [tool |-> cut[i].tool.id,
                          idString |-> cut[i].tool.idString,
                          score |-> cut[i].score,
                          preview |-> cut[i].tool.description,
                          signature |-> GenerateSignature(cut[i].tool)]],
              tools |-> tools]

\* searchWithRegex(tools, pattern, limit): the length check, then the
\* compilation inside try / catch, then the matching; tools is only read
SearchWithRegex(tools, pattern, limit) ==
    LET regex == NewRegExp(SearchPatternOf(pattern), FlagsOf(pattern))
    IN  IF Len(pattern) > MAX_REGEX_LENGTH
        THEN RegexError("pattern_too_long", tools)
        ELSE IF ~regex.ok THEN RegexError("invalid_pattern", tools)
        ELSE [kind |-> "results",
              results |-> RegexResults(regex, tools, limit), tools |-> tools]

(***************************************************************************)
(* The inputs of the model: catalog entries, entry lists, queries.         *)
(***************************************************************************)
\* a catalog entry; inputSchema is read by no code modelled here
CatalogTool(idString, name, description, searchableText, args) ==
    [id |-> [server |-> "s", name |-> name], idString |-> idString,
     description |-> description, searchableText |-> searchableText,
     args |-> args]

\* tokens a, ab, ab; one arg, described as "optional"
ToolA ==
    CatalogTool("a", <<"a">>, <<"a", "b">>,
                <<"a", " ", "A", "b", ",", "a", "b">>,
                << [name |-> <<"p">>, description |-> OptionalWord] >>)
\* the same idString with another text, which has no token; no args
ToolA2 == CatalogTool("a", <<"a">>, <<>>, <<" ", "-">>, <<>>)
\* tokens ab, c; three args: one described as "Optional", one without
\* description, one described as "option"
ToolB ==
    CatalogTool("b", <<"b">>, <<"c">>, <<"a", "b", "-", "c">>,
                << [name |-> <<"q">>,
                    description |-> <<"O", "p", "t", "i", "o", "n", "a", "l">>],
                   [name |-> <<"r">>],
                   [name |-> <<"t">>,
                    description |-> <<"o", "p", "t", "i", "o", "n">>] >>)

Catalog == {ToolA, ToolA2, ToolB}
Ids == {t.idString : t \in Catalog}
ToolLists == UNION {[1..n -> Catalog] : n \in 0..MaxBatch}
ChunkSizes == 1..MaxChunk
Limits == 0..MaxLimit
Queries ==
    { <<>>, <<" ">>, <<"-", " ">>, <<"A", "B">>, <<"a", "b", ",", "c">>, <<"z">>,
      <<"z", " ", "c">> }

Null == [none |-> TRUE]

\* n copies of a word, separated by single spaces (n >= 1)
RECURSIVE Repeat(_, _)
Repeat(word, n) ==
    IF n = 1 THEN <<word>> ELSE <<word, " ">> \o Repeat(word, n - 1)

\* Four entries that all contain the token c, with 4 of 6, 5 of 8, 6 of 10
\* and 1 of 1 tokens equal to c.  Indexed together (average length 25 / 4)
\* their scores for the query "c" are 0.179545, 0.179629, 0.179685 and
\* 0.160522: the first three are 0.000084 and 0.000056 apart, the first and
\* the third 0.000139.
RankA ==
    CatalogTool("a", <<"a">>, <<>>,
                Repeat("c", 4) \o <<" ">> \o Repeat("z", 2), <<>>)
RankB ==
    CatalogTool("b", <<"b">>, <<>>,
                Repeat("c", 5) \o <<" ">> \o Repeat("z", 3), <<>>)
RankC ==
    CatalogTool("c", <<"c">>, <<>>,
                Repeat("c", 6) \o <<" ">> \o Repeat("z", 4), <<>>)
RankD == CatalogTool("d", <<"d">>, <<>>, <<"c">>, <<>>)

\* entry lists long enough for several chunks, over two entries
LongLists == UNION {[1..n -> {ToolA, ToolB}] : n \in 0..MaxLong}
\* chunk sizes up to one more than in the full model
LongChunkSizes == 1..(MaxChunk + 1)

\* n copies of a character
Fill(c, n) == [i \in 1..n |-> c]

\* patterns: the empty one, literals, "a.*c", "b*c", with the prefix "(?i)",
\* patterns that do not compile, and patterns of MAX_REGEX_LENGTH and of
\* MAX_REGEX_LENGTH + 1 characters that do and do not compile
Patterns ==
    { <<>>, <<"a", "b">>, <<"A", "b">>, <<"A", "B">>, <<"z">>,
      CaseInsensitivePrefix \o <<"A", "B">>,
      <<"a", ".", "*", "c">>, <<"b", "*", "c">>,
      <<"(">>, <<"[">>, <<"*", "a">>, <<"a", "*", "*">>,
      CaseInsensitivePrefix \o <<"(">>,
      Fill("a", MAX_REGEX_LENGTH), Fill("a", MAX_REGEX_LENGTH + 1),
      Fill("(", MAX_REGEX_LENGTH), Fill("(", MAX_REGEX_LENGTH + 1),
      CaseInsensitivePrefix \o Fill(".", MAX_REGEX_LENGTH - 5) \o <<"*">>,
      CaseInsensitivePrefix \o Fill("[", MAX_REGEX_LENGTH - 3) }

RankCatalog == {RankA, RankB, RankC, RankD}
RankIds == {t.idString : t \in RankCatalog}
RankQueries == { <<"c">>, <<"z">>, <<"c", ",", "z">> }
RankLimits == Limits \cup {Cardinality(RankCatalog)}

(***************************************************************************)
(* The normalizer (normalizeTool, extractArgs, buildSearchableText of      *)
(* src/mcp-client/normalizer, lines 213-317 of remote.ts) and              *)
(* parseToolName of the plugin.  A JavaScript value is a record tagged     *)
(* with its kind; an object is the sequence of its own entries in the      *)
(* order Object.entries enumerates them.  A call that can raise an         *)
(* exception returns [thrown |-> TRUE] in that case.                       *)
(***************************************************************************)
Undefined == [t |-> "undefined"]
JsNull == [t |-> "null"]
JsString(chars) == [t |-> "string", v |-> chars]
JsNumber(n) == [t |-> "number", v |-> n]
JsBoolean(b) == [t |-> "boolean", v |-> b]
JsObject(entries) == [t |-> "object", entries |-> entries]
Entry(key, value) == [key |-> key, value |-> value]

\* typeof x
TypeOf(x) == IF x.t = "null" THEN "object" ELSE x.t

\* the truthiness of x
Truthy(x) ==
    CASE x.t = "undefined" -> FALSE
      [] x.t = "null" -> FALSE
      [] x.t = "string" -> x.v # <<>>
      [] x.t = "number" -> x.v # 0
      [] x.t = "boolean" -> x.v
      [] OTHER -> TRUE

\* key in x, for an object x (on any other value the operator throws a
\* TypeError)
In(key, x) == \E i \in 1..Len(x.entries) : x.entries[i].key = key

\* x[key], for an object x
Get(x, key) ==
    IF In(key, x)
    THEN x.entries[CHOOSE i \in 1..Len(x.entries) : x.entries[i].key = key].value
    ELSE Undefined

Digits == <<"0", "1", "2", "3", "4", "5", "6", "7", "8", "9">>

\* String(n) of a natural number below 100
NumberToString(n) ==
    IF n < 10 THEN <<Digits[n + 1]>>
    ELSE <<Digits[(n \div 10) + 1], Digits[(n % 10) + 1]>>

\* String(x)
StringOf(x) ==
    CASE x.t = "string" -> x.v
      [] x.t = "number" -> NumberToString(x.v)
      [] x.t = "boolean" ->
           IF x.v THEN <<"t", "r", "u", "e">> ELSE <<"f", "a", "l", "s", "e">>
      [] x.t = "null" -> <<"n", "u", "l", "l">>
      [] x.t = "undefined" -> <<"u", "n", "d", "e", "f", "i", "n", "e", "d">>
      [] OTHER -> <<"[", "o", "b", "j", "e", "c", "t", " ",
                    "O", "b", "j", "e", "c", "t", "]">>

\* the string literals "type", "properties", "description" and "object"
TypeKey == <<"t", "y", "p", "e">>
PropertiesKey == <<"p", "r", "o", "p", "e", "r", "t", "i", "e", "s">>
DescriptionKey == <<"d", "e", "s", "c", "r", "i", "p", "t", "i", "o", "n">>
ObjectWord == <<"o", "b", "j", "e", "c", "t">>

\* the body of the loop of extractArgs: the argument of one [name, prop]
ArgOfEntry(entry) ==
    IF Truthy(entry.value) /\ TypeOf(entry.value) = "object"
       /\ In(DescriptionKey, entry.value)
    THEN [name |-> entry.key,
          description |-> StringOf(Get(entry.value, DescriptionKey))]
    ELSE [name |-> entry.key]

\* extractArgs from its third test on: schema is an object
ArgsOfObject(schema) ==
    IF /\ In(TypeKey, schema)
       /\ Get(schema, TypeKey).t = "string"
       /\ Get(schema, TypeKey).v = ObjectWord
       /\ In(PropertiesKey, schema)
       /\ TypeOf(Get(schema, PropertiesKey)) = "object"
       /\ Get(schema, PropertiesKey).t # "null"
    THEN [thrown |-> FALSE,
          args |-> [i \in 1..Len(Get(schema, PropertiesKey).entries) |->
                      ArgOfEntry(Get(schema, PropertiesKey).entries[i])]]
    ELSE [thrown |-> FALSE, args |-> <<>>]

\* mutant of ExtractArgs: the test schema !== null is missing, so that
\* "type" in null throws
ExtractArgsWithoutNullTest(schema) ==
    IF TypeOf(schema) = "object"
    THEN IF schema.t = "null" THEN [thrown |-> TRUE, args |-> <<>>]
         ELSE ArgsOfObject(schema)
    ELSE [thrown |-> FALSE, args |-> <<>>]

\* extractArgs(schema)
ExtractArgs(schema) ==
    IF TypeOf(schema) = "object" /\ schema.t # "null"
    THEN ArgsOfObject(schema)
    ELSE [thrown |-> FALSE, args |-> <<>>]

\* parts.join(" ")
RECURSIVE JoinSpace(_)
JoinSpace(parts) ==
    IF parts = <<>> THEN <<>>
    ELSE IF Len(parts) = 1 THEN parts[1]
    ELSE parts[1] \o <<" ">> \o JoinSpace(Tail(parts))

\* the parts the loop over args pushes
RECURSIVE ArgParts(_)
ArgParts(args) ==
    IF args = <<>> THEN <<>>
    ELSE (IF "description" \in DOMAIN args[1] /\ args[1].description # <<>>
          THEN <<args[1].name, args[1].description>>
          ELSE <<args[1].name>>) \o ArgParts(Tail(args))

\* `${serverName}_${tool.name}`
QualifiedName(serverName, name) == serverName \o <<"_">> \o name

\* mutant of BuildSearchableText: the parts are the name and the description
\* of every argument that has one, also when it is empty
BuildSearchableTextWithEmpty(serverName, tool, args) ==
    LET argParts(arg) == IF "description" \in DOMAIN arg
                         THEN <<arg.name, arg.description>>
                         ELSE <<arg.name>>
        from[i \in 0..Len(args)] ==
            IF i = Len(args) THEN <<>> ELSE argParts(args[i + 1]) \o from[i + 1]
    IN  JoinSpace(<<QualifiedName(serverName, tool.name), tool.name>>
                  \o (IF Truthy(tool.description)
                      THEN <<tool.description.v>> ELSE <<>>)
                  \o from[0])

\* buildSearchableText(serverName, tool, args)
BuildSearchableText(serverName, tool, args) ==
    JoinSpace(<<QualifiedName(serverName, tool.name), tool.name>>
              \o (IF Truthy(tool.description) THEN <<tool.description.v>> ELSE <<>>)
              \o ArgParts(args))

\* normalizeTool(serverName, tool)
NormalizeTool(serverName, tool) ==
    IF ExtractArgs(tool.inputSchema).thrown THEN [thrown |-> TRUE]
    ELSE [thrown |-> FALSE,
          value |->
            [id |-> [server |-> serverName, name |-> tool.name],
             idString |-> QualifiedName(serverName, tool.name),
             description |-> IF Truthy(tool.description)
                             THEN tool.description.v ELSE <<>>,
             inputSchema |-> tool.inputSchema,
             searchableText |->
                 BuildSearchableText(serverName, tool,
                                     ExtractArgs(tool.inputSchema).args),
             args |-> ExtractArgs(tool.inputSchema).args]]

\* fullName.indexOf("_"): the index of the first underscore, from 0, or -1
IndexOfUnderscore(fullName) ==
    IF \E i \in 1..Len(fullName) : fullName[i] = "_"
    THEN (CHOOSE i \in 1..Len(fullName) :
             /\ fullName[i] = "_"
             /\ \A j \in 1..(i - 1) : fullName[j] # "_") - 1
    ELSE -1

\* parseToolName(fullName)
ParseToolName(fullName) ==
    IF IndexOfUnderscore(fullName) = -1 THEN Null
    ELSE [serverName |-> SubSeq(fullName, 1, IndexOfUnderscore(fullName)),
          toolName |-> SubSeq(fullName, IndexOfUnderscore(fullName) + 2,
                              Len(fullName))]

\* The inputs of the normalizer: server names and tool names without and
\* with an underscore, descriptions, and parameter schemas of every shape.
ServerNames == { <<"a">>, <<"a", "_", "b">> }
RawNames == { <<"c">>, <<"c", "_", "z">> }
RawDescriptions == { Undefined, JsString(<<>>), JsString(<<"a", "b">>) }

ObjectSchema(properties) ==
    JsObject(<<Entry(TypeKey, JsString(ObjectWord)),
               Entry(PropertiesKey, properties)>>)
Described(value) == JsObject(<<Entry(DescriptionKey, value)>>)

InputSchemas ==
    { Undefined, JsNull, JsString(ObjectWord), JsNumber(7),
      JsObject(<<>>),
      JsObject(<<Entry(PropertiesKey, JsObject(<<>>))>>),
      JsObject(<<Entry(TypeKey, JsString(<<"p">>)),
                 Entry(PropertiesKey,
                       JsObject(<<Entry(<<"p">>, Described(JsString(<<"b">>)))>>))>>),
      JsObject(<<Entry(TypeKey, JsString(ObjectWord))>>),
      ObjectSchema(JsNull),
      ObjectSchema(JsString(<<"p">>)),
      ObjectSchema(JsObject(<<>>)),
      ObjectSchema(JsObject(<<Entry(<<"p">>, Described(JsString(<<"b">>)))>>)),
      ObjectSchema(JsObject(<<Entry(<<"p">>, Described(JsString(<<>>))),
                              Entry(<<"q">>, JsObject(<<>>))>>)),
      ObjectSchema(JsObject(<<Entry(<<"q">>, Described(JsString(<<"b">>))),
                              Entry(<<"p">>, JsNull),
                              Entry(<<"r">>, JsBoolean(TRUE))>>)),
      ObjectSchema(JsObject(<<Entry(<<"p">>, Described(JsNumber(42)))>>)),
      ObjectSchema(JsObject(<<Entry(<<"p">>, Described(JsNull)),
                              Entry(<<"q">>, Described(JsObject(<<>>)))>>)) }

RawTools ==
    [name : RawNames, description : RawDescriptions, inputSchema : InputSchemas]

\* the names toolbox_execute is called with: the idStrings of the entries,
\* and names without an underscore
FullNames ==
    {QualifiedName(s, n) : s \in ServerNames, n \in RawNames}
        \cup { <<>>, <<"c">> }

(***************************************************************************)
(* The objects the plugin builds when it is loaded: its own settings and   *)
(* counters, the MCPManager, and a RemoteMCPClient.                        *)
(***************************************************************************)
\* the bounds of the manager's model: the largest retryAttempts setting and
\* the number of calls of initialize() that find the manager idle
MaxRetry == 1
MaxInits == 1

\* DEFAULT_CONNECTION_CONFIG.retryAttempts, and the 2 of
\* `config.settings?.connection?.retryAttempts || 2`
DefaultRetryAttempts == 2

\* config.settings?.connection?.retryAttempts: not set, or a number from 0
RetrySettings == {Undefined} \cup {JsNumber(n) : n \in 0..MaxRetry}

\* the plugin's connectionConfig: retryAttempts: setting || 2
ConnectionConfigOf(setting) ==
    [retryAttempts |-> IF Truthy(setting) THEN setting.v ELSE DefaultRetryAttempts]

\* the largest number of executions the plugin counts
MaxExecutes == 2

\* the largest number of tool calls the plugin is given
MaxCalls == 2

EagerWord == <<"e", "a", "g", "e", "r">>
LazyWord == <<"l", "a", "z", "y">>

\* config.settings?.initMode: not set, "eager" or "lazy"
InitModeSettings == {Undefined, JsString(EagerWord), JsString(LazyWord)}

\* const initMode = config.settings?.initMode || "eager"
InitModeOf(setting) == IF Truthy(setting) THEN setting.v ELSE EagerWord

\* the plugin while it loads, before it starts the initialization: the
\* setting it read and its three counters; serverCalls counts the calls of
\* client.callTool(), toolCalls the tool calls made; mcp are the servers of
\* config.mcp, and loaded tells that the plugin function has returned its
\* hooks; returned are the promises that the initialize() calls to a manager
\* that was not idle have returned, readyWaiters counts the
\* waitForReady() calls that await the init promise, and readyResults are
\* the states that waitForReady() calls have resolved with, each with
\* whether the manager had left idle when the call was made
NewPlugin(setting) ==
    [retryAttempts |-> setting, searchCount |-> 0, executionCount |-> 0,
     executionSuccessCount |-> 0, serverCalls |-> 0,
     initMode |-> InitModeOf(Undefined), mcp |-> {}, loaded |-> FALSE,
     toolCalls |-> 0, returned |-> <<>>, readyWaiters |-> 0,
     readyResults |-> {}]

\* new MCPManager({ connectionConfig }).  servers and clients are Maps; a
\* client is named by the number of the initialize() call that made it;
\* initPromise is 0 for null and otherwise the number of the initialize()
\* call that made it; inits counts those calls, configured is the servers
\* argument of the last of them and unsettled the calls whose Promise.all
\* has not run its callback yet; closing tells that a closeAll() is waiting
\* for its clients to close.  completed[g] counts the init:complete events
\* of the g-th initialize().  partialWaiters counts the waitForPartial()
\* promises of tool calls whose listeners are registered, initCallers the
\* tool calls that await the promise initialize() returned to them, and
\* resolved the tool calls whose promise has resolved and that have not
\* resumed yet.
NewMCPManager(connectionConfig) ==
    [servers |-> <<>>, clients |-> <<>>, connectionConfig |-> connectionConfig,
     initState |-> "idle", initPromise |-> 0,
     serversPending |-> 0, serversCompleted |-> 0,
     inits |-> 0, configured |-> {}, unsettled |-> {}, closing |-> FALSE,
     completed |-> <<>>, partialWaiters |-> 0, initCallers |-> 0,
     resolved |-> 0]

\* the largest number of connect() calls on one RemoteMCPClient
MaxConnects == 3

\* new RemoteMCPClient(config): no transport and no cached tools yet.  url
\* is config.url: "undefined", "invalid" (new URL(url) throws) or "valid".
\* streamable and sse tell what has become of the transport of each kind
\* that connect() made ("none" before it makes one), step where connect()
\* stands, outcome how the last call ended, and calls how often connect()
\* has been called.
NewRemoteMCPClient(url) ==
    [url |-> url, transport |-> "null", transportType |-> "null",
     toolsCache |-> "null", streamable |-> "none", sse |-> "none",
     step |-> "idle", outcome |-> "none", order |-> <<>>, calls |-> 0]

(***************************************************************************)
(* The state.  index is the BM25Index object.  pending is the              *)
(* addToolsAsync call suspended in `await yieldToEventLoop()`, or NoCall;  *)
(* the model follows one such call at a time, and every other call may run *)
(* while it is suspended.  last describes the call that has just run, until*)
(* its caller has taken the result: its name, its argument (of the calls   *)
(* that take one entry, one idString or a query), the value it returned,   *)
(* the index it started from (of the synchronous calls), whether it has    *)
(* returned or resolved (done) and, for a chunked add, how often it has    *)
(* yielded so far.  One thread runs every                                  *)
(* call to its end or to its next yield, so a call starts only when no     *)
(* other is running: last = Idle.                                          *)
(***************************************************************************)
VARIABLES index, pending, last, manager, tasks, remote, plugin

vars == <<index, pending, last, manager, tasks, remote, plugin>>

\* the objects beside the index, which the calls of the index leave alone
others == <<manager, tasks, remote, plugin>>

NoCall == [op |-> "none"]

Min(a, b) == IF a < b THEN a ELSE b

\* tools.slice(i, i + chunkSize)
Chunk(tools, i, chunkSize) == SubSeq(tools, i + 1, Min(i + chunkSize, Len(tools)))

\* mutant of MoreChunks: the test is off by one, so the call stops before the
\* last entry
MoreChunksStopsEarly(tools, i, chunkSize) == i + chunkSize + 1 < Len(tools)

\* mutant of MoreChunks: the test is <=, so the call also yields after a last
\* chunk that is full
MoreChunksYieldsAfterLast(tools, i, chunkSize) == i + chunkSize <= Len(tools)

\* if (i + chunkSize < tools.length): another chunk follows, so yield
MoreChunks(tools, i, chunkSize) == i + chunkSize < Len(tools)

\* what a synchronous call leaves in last
Returned(op, arg, ret, pre) ==
    [op |-> op, arg |-> arg, ret |-> ret, pre |-> pre, done |-> TRUE, yields |-> 0]

\* what a chunked add leaves in last when it yields or resolves: the length
\* of its entry list and its chunk size as arg, and as pre the index as it
\* was when the call was made or resumed
Async(op, tools, chunkSize, done, yields, pre) ==
    [op |-> op, arg |-> [n |-> Len(tools), chunkSize |-> chunkSize],
     ret |-> Null, pre |-> pre, done |-> done, yields |-> yields]

Idle == Returned("idle", Null, Null, Null)

Init ==
    /\ index = EmptyIndex
    /\ pending = NoCall
    /\ last = Idle
    /\ manager = NewMCPManager(ConnectionConfigOf(Undefined))
    /\ tasks = <<>>
    /\ remote = NewRemoteMCPClient("valid")
    /\ plugin = NewPlugin(Undefined)

\* the caller takes the result of the call: the thread is free again
Return ==
    /\ last.op # "idle"
    /\ last' = Idle
    /\ UNCHANGED <<index, pending, others>>

\* indexTools(tools)
IndexTools(tools) ==
    /\ last.op = "idle"
    /\ index' = IndexToolsOp(index, tools)
    /\ last' = Returned("indexTools", Null, Null, index)
    /\ UNCHANGED <<pending, others>>

\* addToolsBatch(tools)
AddToolsBatch(tools) ==
    /\ last.op = "idle"
    /\ index' = AddToolsBatchOp(index, tools)
    /\ last' = Returned("addToolsBatch", Null, Null, index)
    /\ UNCHANGED <<pending, others>>

\* addTool(tool)
AddTool(tool) ==
    /\ last.op = "idle"
    /\ index' = AddToolOp(index, tool)
    /\ last' = Returned("addTool", tool, Null, index)
    /\ UNCHANGED <<pending, others>>

\* removeTool(idString)
RemoveTool(idString) ==
    /\ last.op = "idle"
    /\ index' = RemoveToolOp(index, idString).index
    /\ last' = Returned("removeTool", idString, RemoveToolOp(index, idString).ret,
                        index)
    /\ UNCHANGED <<pending, others>>

\* clear()
Clear ==
    /\ last.op = "idle"
    /\ index' = ClearOp(index)
    /\ last' = Returned("clear", Null, Null, index)
    /\ UNCHANGED <<pending, others>>

\* search(query, limit)
DoSearch(query, limit) ==
    /\ last.op = "idle"
    /\ last' = Returned("search", [query |-> query, limit |-> limit],
                        Search(index, query, limit), index)
    /\ UNCHANGED <<index, pending, others>>

\* the yields a call has made when its loop variable is i
Yields(call) == call.i \div call.chunkSize

\* One turn of the loop of addToolsAsync for `call`, whose i is the loop
\* variable: add the chunk; the call then yields if another chunk follows
\* (more), and otherwise leaves the loop and recalculates the average.
Turn(idx, call) ==
    LET added == AddEach(idx, Chunk(call.tools, call.i, call.chunkSize))
    IN  IF MoreChunks(call.tools, call.i, call.chunkSize)
        THEN [index |-> added, more |-> TRUE]
        ELSE [index |-> RecalculateAvgDocLength(added), more |-> FALSE]

\* the turns of a call one after the other, no other call running between them
RECURSIVE RunTurns(_, _)
RunTurns(idx, call) ==
    IF Turn(idx, call).more
    THEN RunTurns(Turn(idx, call).index, [call EXCEPT !.i = @ + call.chunkSize])
    ELSE Turn(idx, call).index

\* addToolsAsync(tools, chunkSize) from call to resolution, undisturbed
AddToolsAsyncRun(idx, tools, chunkSize) ==
    IF Len(tools) = 0 THEN RecalculateAvgDocLength(idx)
    ELSE RunTurns(idx, [op |-> "addToolsAsync", tools |-> tools,
                        chunkSize |-> chunkSize, i |-> 0])

\* indexToolsAsync(tools, chunkSize) from call to resolution, undisturbed
IndexToolsAsyncRun(idx, tools, chunkSize) ==
    AddToolsAsyncRun(ClearOp(idx), tools, chunkSize)

\* the turn as a step: the call is suspended in yieldToEventLoop, or resolves
RunChunk(idx, call) ==
    /\ UNCHANGED others
    /\ index' = Turn(idx, call).index
    /\ IF Turn(idx, call).more
       THEN /\ pending' = call
            /\ last' = Async(call.op, call.tools, call.chunkSize, FALSE,
                            Yields(call) + 1, index)
       ELSE /\ pending' = NoCall
            /\ last' = Async(call.op, call.tools, call.chunkSize, TRUE,
                            Yields(call), index)

\* the call, up to its first yield or its end: for (let i = 0; i < length; ...)
StartAsync(op, idx, tools, chunkSize) ==
    /\ last.op = "idle"
    /\ MoreChunks(tools, 0, chunkSize) => pending.op = "none"
    /\ IF Len(tools) = 0
       THEN /\ index' = RecalculateAvgDocLength(idx)
            /\ last' = Async(op, tools, chunkSize, TRUE, 0, index)
            /\ UNCHANGED <<pending, others>>
       ELSE RunChunk(idx, [op |-> op, tools |-> tools, chunkSize |-> chunkSize,
                           i |-> 0])

\* addToolsAsync(tools, chunkSize)
AddToolsAsync(tools, chunkSize) ==
    StartAsync("addToolsAsync", index, tools, chunkSize)

\* mutant of IndexToolsAsync: this.clear() is missing
IndexToolsAsyncWithoutClear(tools, chunkSize) ==
    StartAsync("indexToolsAsync", index, tools, chunkSize)

\* indexToolsAsync(tools, chunkSize): this.clear(), then addToolsAsync
IndexToolsAsync(tools, chunkSize) ==
    StartAsync("indexToolsAsync", ClearOp(index), tools, chunkSize)

\* setImmediate resumes the suspended call: i += chunkSize, and the loop
\* goes on (i < tools.length holds, the call yielded because of it)
Resume ==
    /\ last.op = "idle"
    /\ pending.op # "none"
    /\ RunChunk(index, [pending EXCEPT !.i = @ + pending.chunkSize])

Next ==
    \/ \E tools \in ToolLists : IndexTools(tools)
    \/ \E tools \in ToolLists : AddToolsBatch(tools)
    \/ \E tool \in Catalog : AddTool(tool)
    \/ \E idString \in Ids : RemoveTool(idString)
    \/ Clear
    \/ \E query \in Queries, limit \in Limits : DoSearch(query, limit)
    \/ \E tools \in ToolLists, chunkSize \in ChunkSizes : AddToolsAsync(tools, chunkSize)
    \/ \E tools \in ToolLists, chunkSize \in ChunkSizes : IndexToolsAsync(tools, chunkSize)
    \/ Resume
    \/ Return

Spec == Init /\ [][Next]_vars

\* The same index and operations over the entries RankCatalog, added and
\* removed one at a time in every order, and searched.
NextRank ==
    \/ \E tool \in RankCatalog : AddTool(tool)
    \/ \E idString \in RankIds : RemoveTool(idString)
    \/ Clear
    \/ \E query \in RankQueries, limit \in RankLimits : DoSearch(query, limit)
    \/ Return

SpecRank == Init /\ [][NextRank]_vars

\* searchWithRegex(tools, pattern, limit), a function of its arguments
DoSearchWithRegex(tools, pattern, limit) ==
    /\ last.op = "idle"
    /\ last' = Returned("searchWithRegex",
                        [tools |-> tools, pattern |-> pattern, limit |-> limit],
                        SearchWithRegex(tools, pattern, limit), Null)
    /\ UNCHANGED <<index, pending, others>>

\* The regex search applied to every entry list, pattern and limit.
NextRegex ==
    \/ \E tools \in ToolLists, pattern \in Patterns, limit \in Limits :
          DoSearchWithRegex(tools, pattern, limit)
    \/ Return

SpecRegex == Init /\ [][NextRegex]_vars

\* The same index with chunked adds of longer lists, the calls that resume
\* them, and removeTool and clear run at their yield points.
NextChunked ==
    \/ \E tools \in LongLists, chunkSize \in LongChunkSizes :
          AddToolsAsync(tools, chunkSize)
    \/ \E tools \in LongLists, chunkSize \in LongChunkSizes :
          IndexToolsAsync(tools, chunkSize)
    \/ \E idString \in Ids : RemoveTool(idString)
    \/ Clear
    \/ Resume
    \/ Return

SpecChunked == Init /\ [][NextChunked]_vars

(***************************************************************************)
(* Two addToolsAsync calls in progress at once.  pending then holds both:  *)
(* op "pair", the index before the first call (start), the entry lists of  *)
(* the calls made so far one after the other (entries), the suspended      *)
(* calls by their number (running), and the numbers of the calls in the    *)
(* order in which their turns have run (order).  The entries come from a   *)
(* catalog of one server, in which the idString determines the entry.      *)
(***************************************************************************)
PairCatalog == {ToolA, ToolB}
PairLists == UNION {[1..n -> PairCatalog] : n \in 0..MaxBatch}

NoPair(idx) ==
    [op |-> "pair", start |-> idx, entries |-> <<>>, running |-> <<>>,
     order |-> <<>>, made |-> 0]

\* the index holds nothing or one entry when the first call is made
InitPair ==
    /\ index \in {EmptyIndex, AddToolsBatchOp(EmptyIndex, <<ToolB>>)}
    /\ pending = NoPair(index)
    /\ last = Idle
    /\ manager = NewMCPManager(ConnectionConfigOf(Undefined))
    /\ tasks = <<>>
    /\ remote = NewRemoteMCPClient("valid")
    /\ plugin = NewPlugin(Undefined)

\* a turn of the loop of call k as a step: the call is then suspended in
\* yieldToEventLoop, or resolves
RunPairChunk(k, call) ==
    /\ index' = Turn(index, call).index
    /\ pending' =
         [pending EXCEPT
            !.running = IF Turn(index, call).more THEN MapSet(@, k, call)
                        ELSE MapDelete(@, k),
            !.order = Append(@, k),
            !.made = IF call.i = 0 THEN @ + 1 ELSE @,
            !.entries = IF call.i = 0 THEN @ \o call.tools ELSE @]
    /\ UNCHANGED <<last, others>>

\* addToolsAsync(tools, chunkSize) is called, by the first caller or by a
\* second one while the first call is suspended or after it has resolved
PairAddToolsAsync(tools, chunkSize) ==
    /\ pending.made < 2
    /\ IF Len(tools) = 0
       THEN /\ index' = RecalculateAvgDocLength(index)
            /\ pending' = [pending EXCEPT !.order = Append(@, pending.made + 1),
                                          !.made = @ + 1]
            /\ UNCHANGED <<last, others>>
       ELSE RunPairChunk(pending.made + 1,
                         [op |-> "addToolsAsync", tools |-> tools,
                          chunkSize |-> chunkSize, i |-> 0])

\* setImmediate resumes the suspended call k
PairResume(k) ==
    /\ k \in DOMAIN pending.running
    /\ RunPairChunk(k, [pending.running[k] EXCEPT
                          !.i = @ + pending.running[k].chunkSize])

NextPair ==
    \/ \E tools \in PairLists, chunkSize \in ChunkSizes :
          PairAddToolsAsync(tools, chunkSize)
    \/ \E k \in 1..2 : PairResume(k)

SpecPair == InitPair /\ [][NextPair]_vars

(***************************************************************************)
(* The chunked adds with every chunk size.  chunkSize is a number, and the *)
(* loop takes it as it comes: for (let i = 0; i < tools.length;            *)
(* i += chunkSize).  pending holds the suspended call, or op "none" with   *)
(* the entry list of the call that resolved last; of the yields a call has *)
(* made it keeps the parity (odd).                                         *)
(***************************************************************************)
AnyChunkSizes == 0..MaxChunk

Resolved(tools) == [op |-> "none", tools |-> tools]

\* a turn of the loop as a step: the call is then suspended in
\* yieldToEventLoop, or resolves
AnyRunChunk(idx, call) ==
    /\ index' = Turn(idx, call).index
    /\ pending' = IF Turn(idx, call).more
                  THEN [call EXCEPT !.odd = ~@]
                  ELSE Resolved(call.tools)
    /\ UNCHANGED <<last, others>>

\* the call, up to its first yield or its end
AnyStartAsync(op, idx, tools, chunkSize) ==
    /\ pending.op = "none"
    /\ IF Len(tools) = 0
       THEN /\ index' = RecalculateAvgDocLength(idx)
            /\ pending' = Resolved(tools)
            /\ UNCHANGED <<last, others>>
       ELSE AnyRunChunk(idx, [op |-> op, tools |-> tools,
                              chunkSize |-> chunkSize, i |-> 0, odd |-> FALSE])

\* addToolsAsync(tools, chunkSize)
AnyAddToolsAsync(tools, chunkSize) ==
    AnyStartAsync("addToolsAsync", index, tools, chunkSize)

\* indexToolsAsync(tools, chunkSize)
AnyIndexToolsAsync(tools, chunkSize) ==
    AnyStartAsync("indexToolsAsync", ClearOp(index), tools, chunkSize)

\* setImmediate resumes the suspended call: i += chunkSize
AnyResume ==
    /\ pending.op # "none"
    /\ AnyRunChunk(index, [pending EXCEPT !.i = @ + pending.chunkSize])

InitAnyChunk ==
    /\ index = EmptyIndex
    /\ pending = Resolved(<<>>)
    /\ last = Idle
    /\ manager = NewMCPManager(ConnectionConfigOf(Undefined))
    /\ tasks = <<>>
    /\ remote = NewRemoteMCPClient("valid")
    /\ plugin = NewPlugin(Undefined)

NextAnyChunk ==
    \/ \E tools \in ToolLists, chunkSize \in AnyChunkSizes :
          AnyAddToolsAsync(tools, chunkSize)
    \/ \E tools \in ToolLists, chunkSize \in AnyChunkSizes :
          AnyIndexToolsAsync(tools, chunkSize)
    \/ AnyResume

\* The scheduler resumes a suspended call after each yield.
SpecAnyChunk == InitAnyChunk /\ [][NextAnyChunk]_vars /\ WF_vars(AnyResume)

\* normalizeTool(serverName, tool), a function of its arguments
DoNormalizeTool(serverName, tool) ==
    /\ last.op = "idle"
    /\ last' = Returned("normalizeTool", [serverName |-> serverName, tool |-> tool],
                        NormalizeTool(serverName, tool), Null)
    /\ UNCHANGED <<index, pending, others>>

\* parseToolName(fullName), a function of its argument
DoParseToolName(fullName) ==
    /\ last.op = "idle"
    /\ last' = Returned("parseToolName", fullName, ParseToolName(fullName), Null)
    /\ UNCHANGED <<index, pending, others>>

\* The normalizer applied to every server name and raw tool, and the parser
\* applied to every name.
NextNormalize ==
    \/ \E serverName \in ServerNames, tool \in RawTools :
          DoNormalizeTool(serverName, tool)
    \/ \E fullName \in FullNames : DoParseToolName(fullName)
    \/ Return

SpecNormalize == Init /\ [][NextNormalize]_vars

(***************************************************************************)
(* MCPManager (src/unnamed/part_005, lines 735-1084).  initialize() starts *)
(* connectServerWithRetry for every configured server at once; each of     *)
(* these calls is a task, named by the number g of the initialize() call   *)
(* that started it and by its server, which moves from one await to the    *)
(* next: step "connect" (awaiting client.connect()), "listTools" (awaiting *)
(* client.listTools()), "sleep" (awaiting the delay before the next        *)
(* attempt), and "connected" or "failed" when it has returned.  The client *)
(* of a server is what the environment makes of it: each await resolves or *)
(* rejects, and the error of the k-th attempt has message k.  A task also  *)
(* records what it wrote last: the error it marked its server with and the *)
(* message of the server:error it emitted (0 when it has not); and it      *)
(* counts its clients whose connect() is still pending behind a connect    *)
(* timeout (late), those whose connect() succeeded and that it neither     *)
(* registered nor closed (abandoned), and the server:connected and         *)
(* server:error events it has emitted (events).                            *)
(***************************************************************************)

\* the servers of config.mcp that initialize() is called with
ServerSets == SUBSET ServerNames

\* what client.listTools() of a server returns
ListedTools(name) ==
    << [name |-> <<"c">>, description |-> Undefined, inputSchema |-> Undefined] >>

\* normalizeTools(serverName, tools)
NormalizeTools(serverName, tools) ==
    [i \in 1..Len(tools) |-> NormalizeTool(serverName, tools[i]).value]

\* the MCPServer records: error 0 stands for no error field
Connecting == [status |-> "connecting", tools |-> <<>>, error |-> 0]
Connected(tools) == [status |-> "connected", tools |-> tools, error |-> 0]
Failed(message) == [status |-> "error", tools |-> <<>>, error |-> message]

TaskId(g, name) == [g |-> g, name |-> name]

\* a task in its first attempt, after connectServer has called
\* client.connect()
NewTask == [step |-> "connect", attempt |-> 1, lastError |-> 0,
            marked |-> 0, emitted |-> 0, late |-> 0, abandoned |-> 0,
            events |-> 0]

\* the servers of the Map whose status is "connected"
ConnectedServers(mgr) ==
    {n \in DOMAIN mgr.servers : mgr.servers[n].status = "connected"}

ResolveNoWaiter(mgr) == mgr
\* onPartial and onComplete, the listeners of waitForPartial(): each
\* removes itself and its twin and resolves its promise
ResolveWaiters(mgr) ==
    [mgr EXCEPT !.resolved = @ + mgr.partialWaiters, !.partialWaiters = 0]

\* checkPartialReady(), with the listeners of the init:partial it emits
CheckPartialReady(mgr) ==
    IF /\ mgr.initState = "initializing"
       /\ Cardinality(ConnectedServers(mgr)) = 1
       /\ mgr.serversCompleted + 1 < mgr.serversPending
    THEN ResolveWaiters([mgr EXCEPT !.serversCompleted = @ + 1,
                                    !.initState = "partial"])
    ELSE [mgr EXCEPT !.serversCompleted = @ + 1]

\* isReady()
IsReady(mgr) == mgr.initState \in {"ready", "partial", "degraded"}

\* isComplete()
IsComplete(mgr) == mgr.initState \in {"ready", "degraded"}

\* the manager after initialize(servers), called when it is idle
InitializeOp(mgr, servers) ==
    [mgr EXCEPT
       !.initState = "initializing",
       !.serversPending = Cardinality(servers),
       !.serversCompleted = 0,
       !.servers = [n \in DOMAIN @ \cup servers |->
                      IF n \in servers THEN Connecting ELSE @[n]],
       !.initPromise = mgr.inits + 1,
       !.inits = @ + 1,
       !.configured = servers,
       !.unsettled = @ \cup {mgr.inits + 1},
       !.completed = Append(@, 0)]

\* the tasks after the g-th initialize(): every connectServerWithRetry has
\* run up to its first await
StartTasks(tks, g, servers) ==
    [id \in DOMAIN tks \cup {TaskId(g, n) : n \in servers} |->
        IF id \in DOMAIN tks THEN tks[id] ELSE NewTask]

\* initialize(servers), called when the manager is idle
Initialize(servers) ==
    /\ manager.initState = "idle"
    /\ manager.inits < MaxInits
    /\ manager' = InitializeOp(manager, servers)
    /\ tasks' = StartTasks(tasks, manager.inits + 1, servers)
    /\ UNCHANGED <<index, pending, last, remote, plugin>>

\* client.connect() resolves: connectServer calls client.listTools()
ConnectResolves(id) ==
    /\ id \in DOMAIN tasks
    /\ tasks[id].step = "connect"
    /\ tasks' = [tasks EXCEPT ![id].step = "listTools"]
    /\ UNCHANGED <<index, pending, last, manager, remote, plugin>>

\* const maxAttempts = this.connectionConfig.retryAttempts + 1
MaxAttempts(mgr) == mgr.connectionConfig.retryAttempts + 1

\* an await of connectServer rejects in attempt k, with message k: the catch
\* of connectServerWithRetry, and after the last attempt the code behind
\* the loop.  tks are the tasks with the client of the attempt accounted for:
\* connectServer drops its reference to the client and does not close it.
AttemptFails(id, tks) ==
    IF tks[id].attempt < MaxAttempts(manager)
    THEN /\ tasks' = [tks EXCEPT ![id].step = "sleep",
                                 ![id].lastError = tks[id].attempt]
         /\ UNCHANGED manager
    ELSE /\ manager' =
              CheckPartialReady(
                  [manager EXCEPT
                     !.servers = MapSet(@, id.name, Failed(tks[id].attempt))])
         /\ tasks' = [tks EXCEPT ![id].step = "failed",
                                 ![id].lastError = tks[id].attempt,
                                 ![id].marked = tks[id].attempt,
                                 ![id].emitted = tks[id].attempt,
                                 ![id].events = @ + 1]

\* client.connect() rejects
ConnectRejects(id) ==
    /\ id \in DOMAIN tasks
    /\ tasks[id].step = "connect"
    /\ AttemptFails(id, tasks)
    /\ UNCHANGED <<index, pending, last, remote, plugin>>

\* the connect timeout wins the race of withTimeout: the attempt fails while
\* client.connect() is still pending
ConnectTimesOut(id) ==
    /\ id \in DOMAIN tasks
    /\ tasks[id].step = "connect"
    /\ AttemptFails(id, [tasks EXCEPT ![id].late = @ + 1])
    /\ UNCHANGED <<index, pending, last, remote, plugin>>

\* a client.connect() that lost the race resolves: nothing awaits it
LateConnect(id) ==
    /\ id \in DOMAIN tasks
    /\ tasks[id].late > 0
    /\ tasks' = [tasks EXCEPT ![id].late = @ - 1, ![id].abandoned = @ + 1]
    /\ UNCHANGED <<index, pending, last, manager, remote, plugin>>

OnServerConnectedIgnored(idx, tools) == idx
\* the plugin's listener of server:connected: bm25Index.addToolsBatch(tools)
OnServerConnected(idx, tools) == AddToolsBatchOp(idx, tools)

\* client.listTools() resolves: the server and its client are registered,
\* server:connected is emitted, whose listener in the plugin adds the
\* server's tools to the index, checkPartialReady() runs, and
\* connectServerWithRetry returns
ListToolsResolves(id) ==
    /\ id \in DOMAIN tasks
    /\ tasks[id].step = "listTools"
    /\ manager' =
         CheckPartialReady(
             [manager EXCEPT
                !.servers = MapSet(@, id.name,
                                   Connected(NormalizeTools(id.name,
                                                            ListedTools(id.name)))),
                !.clients = MapSet(@, id.name, id.g)])
    /\ tasks' = [tasks EXCEPT ![id].step = "connected", ![id].events = @ + 1]
    /\ index' = OnServerConnected(index,
                                  NormalizeTools(id.name, ListedTools(id.name)))
    /\ UNCHANGED <<pending, last, remote, plugin>>

\* client.listTools() rejects, or the request timeout wins the race: the
\* client of the attempt stays connected
ListToolsRejects(id) ==
    /\ id \in DOMAIN tasks
    /\ tasks[id].step = "listTools"
    /\ AttemptFails(id, [tasks EXCEPT ![id].abandoned = @ + 1])
    /\ UNCHANGED <<index, pending, last, remote, plugin>>

\* the delay is over: the next attempt, up to its first await
Wake(id) ==
    /\ id \in DOMAIN tasks
    /\ tasks[id].step = "sleep"
    /\ manager' = [manager EXCEPT !.servers = MapSet(@, id.name, Connecting)]
    /\ tasks' = [tasks EXCEPT ![id].step = "connect", ![id].attempt = @ + 1]
    /\ UNCHANGED <<index, pending, last, remote, plugin>>

\* finalizeInit(), with the listeners of the init:complete it emits
FinalizeInit(mgr) ==
    IF ConnectedServers(mgr) = DOMAIN mgr.servers
    THEN ResolveWaiters([mgr EXCEPT !.initState = "ready"])
    ELSE ResolveWaiters([mgr EXCEPT !.initState = "degraded"])

AnyReturned(g) ==
    \E id \in DOMAIN tasks :
       id.g = g /\ tasks[id].step \in {"connected", "failed"}
\* Promise.all(promises): every connectServerWithRetry of the g-th
\* initialize() has returned
AllReturned(g) ==
    \A id \in DOMAIN tasks :
       id.g = g => tasks[id].step \in {"connected", "failed"}

\* every task of the g-th initialize() has returned: Promise.all resolves,
\* its then-callback calls finalizeInit(), and the promise initialize()
\* returned resolves
Finalize(g) ==
    /\ g \in manager.unsettled
    /\ AllReturned(g)
    /\ manager' = [FinalizeInit(manager) EXCEPT
                      !.unsettled = @ \ {g},
                      !.completed[g] = @ + 1,
                      !.resolved = @ + manager.initCallers,
                      !.initCallers = 0]
    /\ UNCHANGED <<index, pending, last, tasks, remote, plugin>>

\* closeAll() up to its await: close() is called on every registered client
CloseAllStart ==
    /\ ~manager.closing
    /\ manager' = [manager EXCEPT !.closing = TRUE]
    /\ UNCHANGED <<index, pending, last, tasks, remote, plugin>>

\* the clients have closed: closeAll() clears both Maps and resets the state
CloseAllFinish ==
    /\ manager.closing
    /\ manager' = [manager EXCEPT !.servers = <<>>, !.clients = <<>>,
                                  !.initState = "idle", !.initPromise = 0,
                                  !.closing = FALSE]
    /\ UNCHANGED <<index, pending, last, tasks, remote, plugin>>

\* getAllCatalogTools(): the tools of the servers whose status is
\* "connected" (as a set: the order of the Map is not kept)
GetAllCatalogTools(mgr) ==
    UNION {Range(mgr.servers[n].tools) : n \in ConnectedServers(mgr)}

TaskIds == {TaskId(g, n) : g \in 1..MaxInits, n \in ServerNames}

\* The plugin is loaded with any retryAttempts setting and builds its
\* manager from it.
InitManager ==
    /\ index = EmptyIndex
    /\ pending = NoCall
    /\ last = Idle
    /\ tasks = <<>>
    /\ remote = NewRemoteMCPClient("valid")
    /\ \E setting \in RetrySettings :
          /\ plugin = NewPlugin(setting)
          /\ manager = NewMCPManager(ConnectionConfigOf(setting))

NextManager ==
    \/ \E servers \in ServerSets : Initialize(servers)
    \/ \E id \in TaskIds : ConnectResolves(id)
    \/ \E id \in TaskIds : ConnectRejects(id)
    \/ \E id \in TaskIds : ConnectTimesOut(id)
    \/ \E id \in TaskIds : LateConnect(id)
    \/ \E id \in TaskIds : ListToolsResolves(id)
    \/ \E id \in TaskIds : ListToolsRejects(id)
    \/ \E id \in TaskIds : Wake(id)
    \/ \E g \in 1..MaxInits : Finalize(g)
    \/ CloseAllStart
    \/ CloseAllFinish

SpecManager == InitManager /\ [][NextManager]_vars

(***************************************************************************)
(* RemoteMCPClient (src/mcp-client/remote.ts, lines 39-184).  connect()    *)
(* moves from one await to the next: step "streamable" (awaiting           *)
(* client.connect(streamableTransport)), "streamable-close" (awaiting the  *)
(* close() of that transport), "sse" and "sse-close" likewise, and "idle"  *)
(* when no call is running.  The transport of each kind that the call has  *)
(* made is "none" (not asked for), "unmade" (its factory threw),           *)
(* "connecting", "connected", "closing" or "closed" (its close() has       *)
(* settled; a rejection of close() is swallowed).  order lists the         *)
(* attempts of the call in the order they began.                           *)
(***************************************************************************)

\* this.client = this.createClient() and the try of the SSE attempt, up to
\* its await, or its catch when no transport could be made
SseAttempt(r, made) ==
    IF made
    THEN [r EXCEPT !.step = "sse", !.sse = "connecting",
                   !.order = Append(@, "sse")]
    ELSE [r EXCEPT !.step = "idle", !.sse = "unmade",
                   !.order = Append(@, "sse"),
                   !.transport = "null", !.transportType = "null",
                   !.outcome = "thrown"]

\* connect() up to its first await
ConnectCall(streamableMade, sseMade) ==
    /\ remote.step = "idle"
    /\ remote.calls < MaxConnects
    /\ remote' =
         IF remote.url # "valid"
         THEN [remote EXCEPT !.outcome = "thrown", !.order = <<>>,
                             !.streamable = "none", !.sse = "none",
                             !.calls = @ + 1]
         ELSE IF streamableMade
         THEN [remote EXCEPT !.transportType = "null", !.outcome = "none",
                             !.step = "streamable",
                             !.streamable = "connecting", !.sse = "none",
                             !.order = <<"streamable">>, !.calls = @ + 1]
         ELSE SseAttempt([remote EXCEPT !.transportType = "null",
                                        !.outcome = "none",
                                        !.streamable = "unmade", !.sse = "none",
                                        !.order = <<"streamable">>,
                                        !.calls = @ + 1],
                         sseMade)
    /\ UNCHANGED <<index, pending, last, manager, tasks, plugin>>

\* client.connect(streamableTransport) resolves: connect() returns
StreamableConnects ==
    /\ remote.step = "streamable"
    /\ remote' = [remote EXCEPT !.step = "idle", !.streamable = "connected",
                                !.transport = "streamable-http",
                                !.transportType = "streamable-http",
                                !.outcome = "resolved"]
    /\ UNCHANGED <<index, pending, last, manager, tasks, plugin>>

\* mutant of CatchStreamable: the fallback begins without closing the
\* transport that failed
CatchStreamableWithoutClose(r) ==
    [r EXCEPT !.step = "sse", !.streamable = "failed", !.sse = "connecting",
              !.order = Append(@, "sse")]

\* the catch of the streamable attempt, up to its await
CatchStreamable(r) ==
    [r EXCEPT !.step = "streamable-close", !.streamable = "closing"]

\* client.connect(streamableTransport) rejects
StreamableFails ==
    /\ remote.step = "streamable"
    /\ remote' = CatchStreamable(remote)
    /\ UNCHANGED <<index, pending, last, manager, tasks, plugin>>

\* streamableTransport.close() settles: the client is replaced and the SSE
\* attempt begins
StreamableCloses(sseMade) ==
    /\ remote.step = "streamable-close"
    /\ remote' = SseAttempt([remote EXCEPT !.streamable = "closed"], sseMade)
    /\ UNCHANGED <<index, pending, last, manager, tasks, plugin>>

\* client.connect(sseTransport) resolves: connect() returns
SseConnects ==
    /\ remote.step = "sse"
    /\ remote' = [remote EXCEPT !.step = "idle", !.sse = "connected",
                                !.transport = "sse", !.transportType = "sse",
                                !.outcome = "resolved"]
    /\ UNCHANGED <<index, pending, last, manager, tasks, plugin>>

\* client.connect(sseTransport) rejects: the catch, up to its await
SseFails ==
    /\ remote.step = "sse"
    /\ remote' = [remote EXCEPT !.step = "sse-close", !.sse = "closing"]
    /\ UNCHANGED <<index, pending, last, manager, tasks, plugin>>

\* sseTransport.close() settles: connect() throws the error
SseCloses ==
    /\ remote.step = "sse-close"
    /\ remote' = [remote EXCEPT !.step = "idle", !.sse = "closed",
                                !.transport = "null", !.transportType = "null",
                                !.outcome = "thrown"]
    /\ UNCHANGED <<index, pending, last, manager, tasks, plugin>>

\* listTools() on a connected client: the tools are cached
RemoteListTools ==
    /\ remote.step = "idle"
    /\ remote.transport # "null"
    /\ remote' = [remote EXCEPT !.toolsCache = "cached"]
    /\ UNCHANGED <<index, pending, last, manager, tasks, plugin>>

\* close()
RemoteClose ==
    /\ remote.step = "idle"
    /\ remote' = [remote EXCEPT !.transport = "null", !.transportType = "null",
                                !.toolsCache = "null", !.outcome = "closed"]
    /\ UNCHANGED <<index, pending, last, manager, tasks, plugin>>

\* A client with any URL setting.
InitRemote ==
    /\ index = EmptyIndex
    /\ pending = NoCall
    /\ last = Idle
    /\ manager = NewMCPManager(ConnectionConfigOf(Undefined))
    /\ tasks = <<>>
    /\ plugin = NewPlugin(Undefined)
    /\ \E url \in {"undefined", "invalid", "valid"} :
          remote = NewRemoteMCPClient(url)

NextRemote ==
    \/ \E streamableMade \in BOOLEAN, sseMade \in BOOLEAN :
          ConnectCall(streamableMade, sseMade)
    \/ StreamableConnects
    \/ StreamableFails
    \/ \E sseMade \in BOOLEAN : StreamableCloses(sseMade)
    \/ SseConnects
    \/ SseFails
    \/ SseCloses
    \/ RemoteListTools
    \/ RemoteClose

SpecRemote == InitRemote /\ [][NextRemote]_vars

(***************************************************************************)
(* The plugin and its manager (src/unnamed/part_004, lines 940-1063).  The *)
(* plugin reads initMode and the servers from its configuration, and in    *)
(* eager mode starts the initialization while it loads.  Every tool call   *)
(* first awaits ensureInitialized().  The plugin never calls closeAll().   *)
(* The manager's initialize(), waitForPartial() and waitForReady() are     *)
(* also called from outside the plugin, at any moment.                     *)
(***************************************************************************)

NotIdleNever(mgr) == FALSE
\* if (this.initState !== "idle")
NotIdle(mgr) == mgr.initState # "idle"

PluginTaskIds == {TaskId(g, n) : g \in 1..(MaxCalls + 1), n \in ServerNames}

\* initialize(servers), called in any state: a manager that is not idle
\* returns the init promise it has; an idle one starts a task per server
InitializeCall(servers) ==
    IF NotIdle(manager)
    THEN /\ plugin' = [plugin EXCEPT !.returned = Append(@, manager.initPromise),
                                     !.toolCalls = @ + 1]
         /\ UNCHANGED <<manager, tasks>>
    ELSE /\ manager' = InitializeOp(manager, servers)
         /\ tasks' = StartTasks(tasks, manager.inits + 1, servers)
         /\ plugin' = [plugin EXCEPT !.toolCalls = @ + 1]

\* the plugin function runs to its return: in eager mode it calls
\* initializeBackground(config.mcp), which does not await
Load ==
    /\ ~plugin.loaded
    /\ IF plugin.initMode = EagerWord
       THEN /\ manager' = InitializeOp(manager, plugin.mcp)
            /\ tasks' = StartTasks(tasks, manager.inits + 1, plugin.mcp)
       ELSE UNCHANGED <<manager, tasks>>
    /\ plugin' = [plugin EXCEPT !.loaded = TRUE]
    /\ UNCHANGED <<index, pending, last, remote>>

\* waitForPartial(): resolved at once when the manager is ready, and else
\* by the next init:partial or init:complete
WaitForPartialOp(mgr) ==
    IF IsReady(mgr)
    THEN [mgr EXCEPT !.resolved = @ + 1]
    ELSE [mgr EXCEPT !.partialWaiters = @ + 1]

\* a tool call runs ensureInitialized() up to its return or its await
EnsureInitialized ==
    /\ plugin.loaded
    /\ plugin.toolCalls < MaxCalls
    /\ IF IsReady(manager)
       THEN /\ manager' = [manager EXCEPT !.resolved = @ + 1]
            /\ UNCHANGED tasks
       ELSE IF plugin.initMode = LazyWord /\ manager.initState = "idle"
       THEN /\ manager' = [InitializeOp(manager, plugin.mcp) EXCEPT
                              !.initCallers = @ + 1]
            /\ tasks' = StartTasks(tasks, manager.inits + 1, plugin.mcp)
       ELSE /\ manager' = WaitForPartialOp(manager)
            /\ UNCHANGED tasks
    /\ plugin' = [plugin EXCEPT !.toolCalls = @ + 1]
    /\ UNCHANGED <<index, pending, last, remote>>

\* a tool call whose ensureInitialized() has resolved resumes: its handler
\* runs
HandlerRuns ==
    /\ manager.resolved > 0
    /\ manager' = [manager EXCEPT !.resolved = @ - 1]
    /\ UNCHANGED <<index, pending, last, tasks, remote, plugin>>

\* initialize(config.mcp) is called from outside the plugin while the
\* manager is not idle
InitializeAgain ==
    /\ manager.initState # "idle"
    /\ plugin.toolCalls < MaxCalls
    /\ InitializeCall(plugin.mcp)
    /\ UNCHANGED <<index, pending, last, remote>>

\* waitForPartial() is called from outside the plugin
WaitForPartial ==
    /\ plugin.toolCalls < MaxCalls
    /\ manager' = WaitForPartialOp(manager)
    /\ plugin' = [plugin EXCEPT !.toolCalls = @ + 1]
    /\ UNCHANGED <<index, pending, last, tasks, remote>>

\* waitForReady() up to its return or its await: it returns the state when
\* the manager is complete or has no init promise
WaitForReady ==
    /\ plugin.toolCalls < MaxCalls
    /\ plugin' =
         IF IsComplete(manager) \/ manager.initPromise = 0
         THEN [plugin EXCEPT !.toolCalls = @ + 1,
                             !.readyResults =
                                @ \cup {[started |-> NotIdle(manager),
                                         got |-> manager.initState]}]
         ELSE [plugin EXCEPT !.toolCalls = @ + 1, !.readyWaiters = @ + 1]
    /\ UNCHANGED <<index, pending, last, manager, tasks, remote>>

\* the init promise has resolved: a waitForReady() that awaited it resumes
\* and returns the state
WaitForReadyReturns ==
    /\ plugin.readyWaiters > 0
    /\ manager.initPromise # 0
    /\ manager.completed[manager.initPromise] > 0
    /\ plugin' = [plugin EXCEPT !.readyWaiters = @ - 1,
                                !.readyResults =
                                   @ \cup {[started |-> TRUE,
                                            got |-> manager.initState]}]
    /\ UNCHANGED <<index, pending, last, manager, tasks, remote>>

\* the retryAttempts settings of the plugin: no retry, or one
PluginRetrySettings == {JsNumber(0), JsNumber(1)}

\* The plugin function has been called with any configuration.
InitPlugin ==
    /\ index = EmptyIndex
    /\ pending = NoCall
    /\ last = Idle
    /\ tasks = <<>>
    /\ remote = NewRemoteMCPClient("valid")
    /\ \E setting \in PluginRetrySettings, mode \in InitModeSettings,
          servers \in ServerSets :
          /\ plugin = [NewPlugin(setting) EXCEPT !.initMode = InitModeOf(mode),
                                                 !.mcp = servers]
          /\ manager = NewMCPManager(ConnectionConfigOf(setting))

NextPlugin ==
    \/ Load
    \/ EnsureInitialized
    \/ HandlerRuns
    \/ InitializeAgain
    \/ WaitForPartial
    \/ WaitForReady
    \/ WaitForReadyReturns
    \/ \E id \in PluginTaskIds : ConnectResolves(id)
    \/ \E id \in PluginTaskIds : ConnectRejects(id)
    \/ \E id \in PluginTaskIds : ListToolsResolves(id)
    \/ \E id \in PluginTaskIds : ListToolsRejects(id)
    \/ \E id \in PluginTaskIds : Wake(id)
    \/ \E g \in 1..(MaxCalls + 1) : Finalize(g)

SpecPlugin == InitPlugin /\ [][NextPlugin]_vars

\* what the event loop does on its own: an await of a task settles, a
\* delay ends, or a promise that has resolved runs its continuations.  A
\* listTools() that resolves is not listed: it can do so exactly where it
\* can reject, so that the enabling condition is the same without it.
Settles ==
    \/ \E id \in PluginTaskIds :
          ConnectResolves(id) \/ ConnectRejects(id) \/ ListToolsRejects(id)
            \/ Wake(id)
    \/ \E g \in 1..(MaxCalls + 1) : Finalize(g)
    \/ HandlerRuns
    \/ WaitForReadyReturns

\* Every connect and listTools call settles or times out: no await stays
\* pending for ever, and the event loop does not stop while it has a
\* continuation to run.
SpecPluginFair == SpecPlugin /\ WF_vars(Settles)

(***************************************************************************)
(* toolbox_execute (src/unnamed/part_004, lines 1190-1330).  The call      *)
(* passes ensureInitialized() when the manager is ready, and then runs to  *)
(* its return or to its await of client.callTool(); last holds the call,   *)
(* with done FALSE while it waits for the server.  The result is the       *)
(* object that execute() returns as JSON, with the beginning of its error   *)
(* message, and what became of client.callTool() if it was called.         *)
(***************************************************************************)

\* the manager after initialize(configured) has completed with the servers
\* of connected connected and the others failed
ManagerAfterInit(configured, connected) ==
    [NewMCPManager(ConnectionConfigOf(Undefined)) EXCEPT
        !.servers = [n \in configured |->
                       IF n \in connected
                       THEN Connected(NormalizeTools(n, ListedTools(n)))
                       ELSE Failed(DefaultRetryAttempts + 1)],
        !.clients = [n \in connected |-> 1],
        !.initState = IF connected = configured THEN "ready" ELSE "degraded",
        !.initPromise = 1, !.inits = 1,
        !.serversPending = Cardinality(configured),
        !.serversCompleted = Cardinality(configured),
        !.configured = configured,
        !.completed = <<1>>]

\* the tasks of that initialize()
TasksAfterInit(configured, connected) ==
    [id \in {TaskId(1, n) : n \in configured} |->
        IF id.name \in connected
        THEN [NewTask EXCEPT !.step = "connected", !.events = 1]
        ELSE [NewTask EXCEPT !.step = "failed",
                             !.attempt = DefaultRetryAttempts + 1,
                             !.lastError = DefaultRetryAttempts + 1,
                             !.marked = DefaultRetryAttempts + 1,
                             !.emitted = DefaultRetryAttempts + 1,
                             !.events = 1]]

\* the orders in which the servers of connected can have connected
ConnectOrders(connected) ==
    {order \in [1..Cardinality(connected) -> connected] :
        \A i, j \in DOMAIN order : order[i] = order[j] => i = j}

\* the index after the server:connected listener has run for the servers of
\* order, one after the other
RECURSIVE IndexAfterInit(_)
IndexAfterInit(order) ==
    IF Len(order) = 0 THEN EmptyIndex
    ELSE AddToolsBatchOp(IndexAfterInit(SubSeq(order, 1, Len(order) - 1)),
                         NormalizeTools(order[Len(order)],
                                        ListedTools(order[Len(order)])))

\* args.toolId: the names of FullNames and a name with an unknown server
ToolIdArgs == FullNames \cup { <<"z", "_", "c">> }

\* args.arguments: omitted, empty, "{}" and "{"
ArgumentsArgs ==
    { Undefined, JsString(<<>>), JsString(<<"{", "}">>), JsString(<<"{">>) }

\* JSON.parse(text) returns, for the texts of the model
JsonParses(text) ==
    text \in { <<"{", "}">>, <<"[", "]">>, <<"n", "u", "l", "l">>, <<"7">> }

\* JSON.stringify({ success: true, result })
Succeeded ==
    [thrown |-> FALSE, success |-> TRUE, error |-> "none", call |-> "resolved"]

\* JSON.stringify({ success: false, error, ... })
NotSucceeded(error, call) ==
    [thrown |-> FALSE, success |-> FALSE, error |-> error, call |-> call]

InvalidToolId == NotSucceeded("Invalid toolId format", "none")
InvalidArguments == NotSucceeded("Failed to parse arguments as JSON", "none")
ClientNotFound == NotSucceeded("Tool execution failed", "none")

\* mutant of ToolboxExecute: the execution is counted before the arguments
\* are parsed
ToolboxExecuteCountsEarly(plg, mgr, toolId, arguments) ==
    IF IndexOfUnderscore(toolId) = -1
    THEN [plugin |-> plg, done |-> TRUE, ret |-> InvalidToolId]
    ELSE IF Truthy(arguments) /\ ~JsonParses(arguments.v)
    THEN [plugin |-> [plg EXCEPT !.executionCount = @ + 1],
          done |-> TRUE, ret |-> InvalidArguments]
    ELSE IF ParseToolName(toolId).serverName \notin DOMAIN mgr.clients
    THEN [plugin |-> [plg EXCEPT !.executionCount = @ + 1],
          done |-> TRUE, ret |-> ClientNotFound]
    ELSE [plugin |-> [plg EXCEPT !.executionCount = @ + 1, !.serverCalls = @ + 1],
          done |-> FALSE, ret |-> Null]

\* execute(args) behind ensureInitialized(), up to its return or its await
\* of client.callTool(): the plugin after it, whether it has returned, and
\* what
ToolboxExecute(plg, mgr, toolId, arguments) ==
    IF IndexOfUnderscore(toolId) = -1
    THEN [plugin |-> plg, done |-> TRUE, ret |-> InvalidToolId]
    ELSE IF Truthy(arguments) /\ ~JsonParses(arguments.v)
    THEN [plugin |-> plg, done |-> TRUE, ret |-> InvalidArguments]
    ELSE IF ParseToolName(toolId).serverName \notin DOMAIN mgr.clients
    THEN [plugin |-> [plg EXCEPT !.executionCount = @ + 1],
          done |-> TRUE, ret |-> ClientNotFound]
    ELSE [plugin |-> [plg EXCEPT !.executionCount = @ + 1, !.serverCalls = @ + 1],
          done |-> FALSE, ret |-> Null]

\* toolbox_execute({ toolId, arguments })
Execute(toolId, arguments) ==
    /\ last.op = "idle"
    /\ IsReady(manager)
    /\ plugin.executionCount < MaxExecutes
    /\ plugin' = ToolboxExecute(plugin, manager, toolId, arguments).plugin
    /\ last' = [op |-> "toolbox_execute",
                arg |-> [toolId |-> toolId, arguments |-> arguments],
                ret |-> ToolboxExecute(plugin, manager, toolId, arguments).ret,
                pre |-> plugin,
                done |-> ToolboxExecute(plugin, manager, toolId, arguments).done,
                yields |-> 0]
    /\ UNCHANGED <<index, pending, manager, tasks, remote>>

\* client.callTool() resolves: the success is counted and returned
CallToolResolves ==
    /\ last.op = "toolbox_execute"
    /\ ~last.done
    /\ plugin' = [plugin EXCEPT !.executionSuccessCount = @ + 1]
    /\ last' = [last EXCEPT !.done = TRUE, !.ret = Succeeded]
    /\ UNCHANGED <<index, pending, manager, tasks, remote>>

\* client.callTool() rejects, or the request timeout wins the race: the
\* catch returns the failure
CallToolRejects ==
    /\ last.op = "toolbox_execute"
    /\ ~last.done
    /\ last' = [last EXCEPT !.done = TRUE,
                             !.ret = NotSucceeded("Tool execution failed", "rejected")]
    /\ UNCHANGED <<index, pending, manager, tasks, remote, plugin>>

\* the caller takes the result
ExecuteReturns ==
    /\ last.op = "toolbox_execute"
    /\ last.done
    /\ last' = Idle
    /\ UNCHANGED <<index, pending, manager, tasks, remote, plugin>>

\* The plugin with its manager after an initialization of any servers, of
\* which any have connected.
InitExecute ==
    /\ pending = NoCall
    /\ last = Idle
    /\ remote = NewRemoteMCPClient("valid")
    /\ \E configured \in ServerSets :
          \E connected \in SUBSET configured :
              /\ plugin = [NewPlugin(Undefined) EXCEPT !.mcp = configured,
                                                       !.loaded = TRUE]
              /\ manager = ManagerAfterInit(configured, connected)
              /\ tasks = TasksAfterInit(configured, connected)
              /\ \E order \in ConnectOrders(connected) :
                    index = IndexAfterInit(order)

NextExecute ==
    \/ \E toolId \in ToolIdArgs, arguments \in ArgumentsArgs :
          Execute(toolId, arguments)
    \/ CallToolResolves
    \/ CallToolRejects
    \/ ExecuteReturns

SpecExecute == InitExecute /\ [][NextExecute]_vars

(***************************************************************************)
(* Properties of the index.                                                *)
(***************************************************************************)
\* the number of indexed documents whose token sequence contains the term
DocsWithTerm(idx, term) ==
    Cardinality({i \in 1..Len(idx.documents) :
                    term \in Range(idx.documents[i].tokens)})

\* every term of an indexed document and every stored term
TermsOf(idx) ==
    DOMAIN idx.docFreqs
    \cup UNION {Range(idx.documents[i].tokens) : i \in 1..Len(idx.documents)}

RECURSIVE SumOfLengths(_)
SumOfLengths(docs) ==
    IF docs = <<>> THEN 0 ELSE Len(Head(docs).tokens) + SumOfLengths(Tail(docs))

\* the aggregates agree with the document records; the average num / den is
\* compared with totalTokens / totalDocs by cross-multiplication
AggregatesConsistent(idx) ==
    /\ idx.totalDocs = Len(idx.documents)
    /\ idx.totalTokens = SumOfLengths(idx.documents)
    /\ DOMAIN idx.docLengths = DocIds(idx)
    /\ IF idx.totalDocs = 0 THEN idx.avgDocLength.num = 0
       ELSE idx.avgDocLength.num * idx.totalDocs
              = idx.totalTokens * idx.avgDocLength.den

\* the average is the one a recalculation would store
AverageCurrent(idx) == RecalculateAvgDocLength(idx) = idx

Mutators == {"indexTools", "addTool", "addToolsBatch", "removeTool", "clear"}
ChunkedAdds == {"addToolsAsync", "indexToolsAsync"}

\* the idStrings of a search result
ResultIds(results) == {results[i].idString : i \in 1..Len(results)}

\* the text has no word character: empty, whitespace or punctuation only
NoWordChar(text) == \A i \in 1..Len(text) : ~IsWordChar(text[i])

\* C1: in every state, also between the chunks of a chunked add and after
\* any call run there, each stored document frequency is positive and equals
\* the number of indexed documents containing the term, and a term that is
\* not stored occurs in no indexed document.
C1_DocFreqsExact ==
    \A term \in TermsOf(index) :
        /\ term \in DOMAIN index.docFreqs => index.docFreqs[term] > 0
        /\ GetOrZero(index.docFreqs, term) = DocsWithTerm(index, term)

\* C1 witness: while a chunked add is suspended, removeTool has removed a
\* document, deleting one term and decrementing another from 2 to 1.
C1_Witness ==
    /\ pending.op # "none"
    /\ last.op = "removeTool" /\ last.ret = TRUE
    /\ \E term \in DOMAIN last.pre.docFreqs : term \notin DOMAIN index.docFreqs
    /\ \E term \in DOMAIN index.docFreqs :
          last.pre.docFreqs[term] = 2 /\ index.docFreqs[term] = 1

\* C2: when a synchronous mutator has returned or a chunked add has
\* resolved, totalDocs is the number of document records, totalTokens the
\* sum of their token counts and avgDocLength their quotient (0 for no
\* document).
C2_AggregatesAfterCall ==
    (last.op \in Mutators \/ (last.op \in ChunkedAdds /\ last.done))
        => AggregatesConsistent(index)

\* the entries of the chunks a suspended call has added so far
Processed(call) ==
    SubSeq(call.tools, 1, Min(call.i + call.chunkSize, Len(call.tools)))

\* C3: a search run while addToolsAsync is suspended between two chunks
\* returns every entry the call has indexed so far whose tokens contain a
\* query token, unless the result already holds limit entries.
C3_SearchBetweenChunksFindsAdded ==
    (last.op = "search" /\ pending.op = "addToolsAsync") =>
        \A k \in 1..Len(Processed(pending)) :
            LET tool == Processed(pending)[k]
            IN  ( /\ Has(index, tool.idString)
                  /\ DocGet(index, tool.idString).tool = tool
                  /\ Range(Tokenize(tool.searchableText))
                       \cap Range(Tokenize(last.arg.query)) # {} )
                => \/ tool.idString \in ResultIds(last.ret)
                   \/ Len(last.ret) = last.arg.limit

\* C4: from every state in which a call can start, for every entry list and
\* chunk size, addToolsAsync run undisturbed to its resolution leaves the
\* index addToolsBatch leaves.
C4_AsyncEqualsBatch ==
    last.op = "idle" =>
        \A tools \in ToolLists, chunkSize \in ChunkSizes :
            AddToolsAsyncRun(index, tools, chunkSize) = AddToolsBatchOp(index, tools)

\* C4 witness: an addToolsAsync that yielded has resolved, and the index is
\* the one addToolsBatch builds from the same two entries.
C4_Witness ==
    /\ last.op = "addToolsAsync" /\ last.done /\ last.yields >= 1
    /\ index = AddToolsBatchOp(EmptyIndex, <<ToolB, ToolA>>)

\* addTool on each entry in order
RECURSIVE AddToolEach(_, _)
AddToolEach(idx, tools) ==
    IF tools = <<>> THEN idx
    ELSE AddToolEach(AddToolOp(idx, Head(tools)), Tail(tools))

\* C5: from every state, for every entry list, addToolsBatch leaves the
\* index that addTool on each entry in order leaves.
C5_BatchEqualsRepeatedAdd ==
    \A tools \in ToolLists :
        AddToolsBatchOp(index, tools) = AddToolEach(index, tools)

\* C6: addTool of an entry whose idString is indexed leaves the index as it
\* was.
C6_DuplicateAddChangesNothing ==
    (last.op = "addTool" /\ Has(last.pre, last.arg.idString))
        => index = last.pre

\* C7: from every state, addTool of an entry that is not indexed followed by
\* removeTool of its idString leaves the index as it was.
C7_AddThenRemoveRestores ==
    \A tool \in Catalog :
        ~Has(index, tool.idString)
            => RemoveToolOp(AddToolOp(index, tool), tool.idString).index = index

\* C8: removeTool of an idString that is not indexed returns false and
\* leaves the index as it was; removeTool of an indexed idString returns
\* true, after it has() is false, the size is one less, every other document
\* record is kept and no search returns the idString.
C8_RemoveTool ==
    last.op = "removeTool" =>
        IF ~Has(last.pre, last.arg)
        THEN last.ret = FALSE /\ index = last.pre
        ELSE /\ last.ret = TRUE
             /\ ~Has(index, last.arg)
             /\ index.totalDocs = last.pre.totalDocs - 1
             /\ index.documents
                  = SelectSeq(last.pre.documents, LAMBDA d : d.idString # last.arg)
             /\ \A query \in Queries, limit \in Limits :
                    last.arg \notin ResultIds(Search(index, query, limit))

\* C8 witness: removeTool has returned true and one other document is left,
\* which a search still returns.
C8_Witness ==
    /\ last.op = "removeTool" /\ last.ret = TRUE
    /\ Len(index.documents) = 1
    /\ \E query \in Queries, limit \in Limits :
          Search(index, query, limit) # <<>>

\* C9: from every state in which a call can start, for every entry list and
\* chunk size, indexTools and an undisturbed indexToolsAsync leave the index
\* that addToolsBatch builds from a new index.
C9_RebuildEqualsFreshBatch ==
    last.op = "idle" =>
        \A tools \in ToolLists :
            /\ IndexToolsOp(index, tools) = AddToolsBatchOp(EmptyIndex, tools)
            /\ \A chunkSize \in ChunkSizes :
                  IndexToolsAsyncRun(index, tools, chunkSize)
                    = AddToolsBatchOp(EmptyIndex, tools)

\* C9 witness: indexTools has replaced an index that held document a by one
\* that holds only document b.
C9_Witness ==
    /\ last.op = "indexTools"
    /\ Has(last.pre, "a")
    /\ index = AddToolsBatchOp(EmptyIndex, <<ToolB>>)

\* C10: a search whose query has no word character, or on an index without
\* documents, returns the empty sequence and leaves the index as it was.
C10_DegenerateSearchIsEmpty ==
    (last.op = "search"
       /\ (NoWordChar(last.arg.query) \/ Len(last.pre.documents) = 0))
        => last.ret = <<>> /\ index = last.pre

\* C10 witness: a search with a punctuation-and-space query has run on an
\* index that holds a document with tokens.
C10_Witness ==
    /\ last.op = "search"
    /\ last.arg.query = <<"-", " ">>
    /\ last.arg.limit > 0
    /\ index.totalTokens > 0

\* the idStrings of the indexed documents whose token sequence contains at
\* least one token of the query
Sharing(idx, query) ==
    {idx.documents[i].idString : i \in
        {j \in 1..Len(idx.documents) :
            Range(idx.documents[j].tokens) \cap Range(Tokenize(query)) # {}}}

\* C11: when a search has run on an index with at least one document while
\* no chunked add is suspended, the documents with a positive score are
\* exactly those whose tokens contain a query token, the result holds only
\* such documents, and it holds one whenever there is one and limit > 0.
C11_EligibleIffSharesToken ==
    (last.op = "search" /\ pending.op = "none" /\ Len(index.documents) >= 1) =>
        /\ ResultIds(Scores(index, Tokenize(last.arg.query)))
             = Sharing(index, last.arg.query)
        /\ ResultIds(last.ret) \subseteq Sharing(index, last.arg.query)
        /\ (Sharing(index, last.arg.query) # {} /\ last.arg.limit > 0)
             => last.ret # <<>>

\* C11 witness: on an index holding documents a and b, a search for "z c",
\* whose token z is in no document and whose token c is in b only, has
\* returned b and not a.
C11_Witness ==
    /\ last.op = "search" /\ pending.op = "none"
    /\ last.arg.query = <<"z", " ", "c">>
    /\ DocIds(index) = {"a", "b"}
    /\ ResultIds(last.ret) = {"b"}

\* a goes before b in the order of the claim: by descending score, and by
\* ascending idString when the scores are less than 0.0001 apart
GoesBefore(a, b) ==
    IF Abs(a.score.val - b.score.val) < TieEpsilon
    THEN IdRank(a.idString) < IdRank(b.idString)
    ELSE a.score.val > b.score.val

\* C12: the result of a search run while no chunked add is suspended holds
\* min(limit, number of eligible documents) eligible documents; of any two
\* results the earlier one goes before the later one (descending score,
\* ascending idString below a difference of 0.0001), and every result goes
\* before every eligible document that was cut off.
C12_ResultOrdered ==
    (last.op = "search" /\ pending.op = "none") =>
        LET eligible == Scores(index, Tokenize(last.arg.query))
            ret == [i \in 1..Len(last.ret) |->
                       [idString |-> last.ret[i].idString,
                        score |-> last.ret[i].score]]
        IN  /\ Range(ret) \subseteq Range(eligible)
            /\ Len(ret) = Min(last.arg.limit, Len(eligible))
            /\ \A i, j \in 1..Len(ret) : i < j => GoesBefore(ret[i], ret[j])
            /\ \A i \in 1..Len(ret) :
                  \A e \in Range(eligible) \ Range(ret) : GoesBefore(ret[i], e)

\* the sequences that hold the elements of seq in another order
Reorderings(seq) ==
    {[i \in 1..Len(seq) |-> seq[f[i]]] :
        f \in {g \in [1..Len(seq) -> 1..Len(seq)] :
                  \A i, j \in 1..Len(seq) : g[i] = g[j] => i = j}}

\* the entries of the index, in the order in which they were added
Entries(idx) == [i \in 1..Len(idx.documents) |-> idx.documents[i].tool]

\* C13: the result of a search run while no chunked add is suspended is the
\* result the same search returns on an index built from the same entries
\* added in any other order, and the result a second call returns.
C13_ResultIndependentOfInsertionOrder ==
    (last.op = "search" /\ pending.op = "none") =>
        /\ Search(index, last.arg.query, last.arg.limit) = last.ret
        /\ \A tools \in Reorderings(Entries(index)) :
              Search(AddToolsBatchOp(EmptyIndex, tools), last.arg.query,
                     last.arg.limit) = last.ret

\* ceil(n / chunkSize)
CeilDiv(n, chunkSize) == (n + chunkSize - 1) \div chunkSize

\* C14: a resolved addToolsAsync of n entries has yielded
\* ceil(n / chunkSize) - 1 times, and not at all when n <= chunkSize; when it
\* is suspended after its k-th yield it has run exactly k whole chunks, the
\* entries of the last of them are all indexed, and at least one entry is
\* left.
C14_YieldsBetweenChunks ==
    last.op = "addToolsAsync" =>
        LET n == last.arg.n
            chunkSize == last.arg.chunkSize
        IN  IF last.done
            THEN last.yields
                   = (IF n <= chunkSize THEN 0 ELSE CeilDiv(n, chunkSize) - 1)
            ELSE /\ pending.op = "addToolsAsync"
                 /\ last.yields >= 1
                 /\ pending.i + chunkSize = last.yields * chunkSize
                 /\ last.yields * chunkSize < n
                 /\ \A k \in 1..chunkSize :
                       Has(index, pending.tools[pending.i + k].idString)

\* C14 witness: an addToolsAsync of four entries with chunk size 3 has
\* resolved after one yield, with both entries indexed.
C14_Witness ==
    /\ last.op = "addToolsAsync" /\ last.done
    /\ last.arg.n = 4 /\ last.arg.chunkSize = 3
    /\ last.yields = 1
    /\ DocIds(index) = {"a", "b"}

\* the idStrings of the documents with a positive score for the query
Eligible(idx, query) == ResultIds(Scores(idx, Tokenize(query)))

Adds == {"addTool", "addToolsBatch", "addToolsAsync"}

\* C15: when addTool or addToolsBatch has returned, or addToolsAsync has
\* yielded or resolved, every document that was eligible for a query when
\* the call was made or resumed is still eligible for it; and when the call
\* has returned or resolved, every indexed document, the newly added ones
\* among them, is eligible for every query that contains one of its tokens.
C15_AddKeepsFindable ==
    last.op \in Adds =>
        \A query \in Queries :
            /\ Eligible(last.pre, query) \subseteq Eligible(index, query)
            /\ last.done => Sharing(index, query) \subseteq Eligible(index, query)

\* C15 witness: an add call has returned on an index in which document a was
\* eligible for "AB"; it has added document b, and both are eligible now.
C15_Witness ==
    /\ last.op \in Adds /\ last.done
    /\ Eligible(last.pre, <<"A", "B">>) = {"a"}
    /\ ~Has(last.pre, "b")
    /\ Eligible(index, <<"A", "B">>) = {"a", "b"}

\* C16: searchWithRegex with a pattern of more than 200 characters returns
\* the error value pattern_too_long, whether or not the pattern compiles,
\* and with a pattern of at most 200 characters never returns it; it never
\* throws.
C16_LongPatternRejected ==
    last.op = "searchWithRegex" =>
        /\ last.ret.kind # "thrown"
        /\ (last.ret.kind = "error" /\ last.ret.code = "pattern_too_long")
             <=> Len(last.arg.pattern) > MAX_REGEX_LENGTH

\* C16 witness: a pattern of exactly 200 characters that compiles has been
\* searched and a result sequence returned.
C16_Witness ==
    /\ last.op = "searchWithRegex"
    /\ Len(last.arg.pattern) = MAX_REGEX_LENGTH
    /\ last.ret.kind = "results"

\* C17: searchWithRegex returns a result sequence or an error value and never
\* throws; a pattern of at most 200 characters that does not compile gives
\* invalid_pattern, one that compiles gives results, and a longer pattern
\* gives pattern_too_long even when it does not compile.
C17_TypedErrorNeverThrows ==
    last.op = "searchWithRegex" =>
        LET pattern == last.arg.pattern
            compiles == NewRegExp(SearchPatternOf(pattern), FlagsOf(pattern)).ok
        IN  /\ last.ret.kind \in {"results", "error"}
            /\ last.ret.kind = "error"
                 => last.ret.code \in {"pattern_too_long", "invalid_pattern"}
            /\ Len(pattern) > MAX_REGEX_LENGTH
                 => last.ret.kind = "error" /\ last.ret.code = "pattern_too_long"
            /\ (Len(pattern) <= MAX_REGEX_LENGTH /\ ~compiles)
                 => last.ret.kind = "error" /\ last.ret.code = "invalid_pattern"
            /\ (Len(pattern) <= MAX_REGEX_LENGTH /\ compiles)
                 => last.ret.kind = "results"

\* C17 witness: a pattern of 201 characters that does not compile has been
\* rejected as pattern_too_long.
C17_Witness ==
    /\ last.op = "searchWithRegex"
    /\ last.arg.pattern = Fill("(", MAX_REGEX_LENGTH + 1)
    /\ last.ret.kind = "error" /\ last.ret.code = "pattern_too_long"

\* the positions of the entries whose searchableText the pattern matches
MatchingPositions(tools, pattern) ==
    {i \in 1..Len(tools) :
        Test(NewRegExp(SearchPatternOf(pattern), FlagsOf(pattern)),
             tools[i].searchableText)}

\* C18: a successful searchWithRegex returns min(limit, number of matching
\* entries) results, each built from a matching entry of its own with score
\* 1, in ascending order of idString, no matching entry that was cut off
\* having a smaller idString than a returned one; and the caller's entry
\* sequence is as it was.
C18_RegexResults ==
    (last.op = "searchWithRegex" /\ last.ret.kind = "results") =>
        LET tools == last.arg.tools
            results == last.ret.results
            matching == MatchingPositions(tools, last.arg.pattern)
        IN  /\ last.ret.tools = tools
            /\ Len(results) = Min(last.arg.limit, Cardinality(matching))
            /\ \E f \in [1..Len(results) -> matching] :
                  /\ \A i, j \in 1..Len(results) : f[i] = f[j] => i = j
                  /\ \A i \in 1..Len(results) :
                        /\ results[i].idString = tools[f[i]].idString
                        /\ results[i].tool = tools[f[i]].id
                        /\ results[i].preview = tools[f[i]].description
                        /\ results[i].score = ScoreScale
                  /\ \A i \in 1..Len(results) :
                        \A m \in matching \ {f[j] : j \in 1..Len(results)} :
                            IdRank(results[i].idString) <= IdRank(tools[m].idString)
            /\ \A i, j \in 1..Len(results) :
                  i < j => IdRank(results[i].idString) <= IdRank(results[j].idString)

\* C18 witness: the case-insensitive pattern "(?i)AB" has been searched in
\* the entries b, a with limit 2, and a, b returned.
C18_Witness ==
    /\ last.op = "searchWithRegex" /\ last.ret.kind = "results"
    /\ last.arg.pattern = CaseInsensitivePrefix \o <<"A", "B">>
    /\ last.arg.tools = <<ToolB, ToolA>>
    /\ Len(last.ret.results) = 2
    /\ last.ret.results[1].idString = "a" /\ last.ret.results[2].idString = "b"

\* C19: every SearchResult of a search carries the tool, idString, preview
\* and signature that searchWithRegex gives for the same entry (searched
\* with the empty pattern, which matches every entry).
C19_SameShapeInBothModes ==
    last.op = "search" =>
        \A i \in 1..Len(last.ret) :
            LET tool == DocGet(last.pre, last.ret[i].idString).tool
                regex == SearchWithRegex(<<tool>>, <<>>, 1)
            IN  /\ regex.kind = "results" /\ Len(regex.results) = 1
                /\ regex.results[1].tool = last.ret[i].tool
                /\ regex.results[1].idString = last.ret[i].idString
                /\ regex.results[1].preview = last.ret[i].preview
                /\ regex.results[1].signature = last.ret[i].signature

\* the name of an arg, with "?" when its description contains "optional" in
\* any letter case
ClaimedArg(arg) ==
    IF "description" \in DOMAIN arg
       /\ Includes(ToLowerCase(arg.description), OptionalWord)
    THEN arg.name \o <<"?">>
    ELSE arg.name

\* C20: the signature of every SearchResult of a search is
\* name(arg1, arg2, ...) with the args in declaration order, an arg being
\* followed by "?" exactly when its description contains "optional" in any
\* letter case.
C20_SignatureMarksOptional ==
    last.op = "search" =>
        \A i \in 1..Len(last.ret) :
            LET tool == DocGet(last.pre, last.ret[i].idString).tool
            IN  last.ret[i].signature
                  = tool.id.name \o <<"(">>
                      \o Join([k \in 1..Len(tool.args) |-> ClaimedArg(tool.args[k])])
                      \o <<")">>


(***************************************************************************)
(* The normalizer and the parser of execution targets.                     *)
(***************************************************************************)

\* the last call was normalizeTool and it returned an entry
Normalized == last.op = "normalizeTool" /\ ~last.ret.thrown

\* the schema is an object of type "object" with a properties map
HasPropertiesMap(schema) ==
    /\ schema.t = "object"
    /\ Get(schema, TypeKey).t = "string"
    /\ Get(schema, TypeKey).v = ObjectWord
    /\ Get(schema, PropertiesKey).t = "object"

\* the argument of one property: its name, and its description if the
\* property has a description field that is a string
ArgWithStringDescription(entry) ==
    IF /\ entry.value.t = "object"
       /\ Get(entry.value, DescriptionKey).t = "string"
    THEN [name |-> entry.key,
          description |-> Get(entry.value, DescriptionKey).v]
    ELSE [name |-> entry.key]

\* one argument per key of the properties map, in key order
ArgsPerKey(schema) ==
    IF HasPropertiesMap(schema)
    THEN [i \in 1..Len(Get(schema, PropertiesKey).entries) |->
            ArgWithStringDescription(Get(schema, PropertiesKey).entries[i])]
    ELSE <<>>

\* for each argument its name followed by its description, omitted when
\* absent and, if omitEmpty, also when empty
RECURSIVE TextPartsOfArgs(_, _)
TextPartsOfArgs(args, omitEmpty) ==
    IF args = <<>> THEN <<>>
    ELSE (IF /\ "description" \in DOMAIN args[1]
             /\ (omitEmpty => args[1].description # <<>>)
          THEN <<args[1].name, args[1].description>>
          ELSE <<args[1].name>>) \o TextPartsOfArgs(Tail(args), omitEmpty)

\* idString, local name, the description unless empty, then the arguments
ExpectedText(entry, omitEmpty) ==
    JoinSpace(<<entry.idString, entry.id.name>>
              \o (IF entry.description # <<>> THEN <<entry.description>> ELSE <<>>)
              \o TextPartsOfArgs(entry.args, omitEmpty))

\* C21: parsing the idString of a normalized entry gives back the server
\* name it was normalized with and the tool's own name, also when the server
\* name contains an underscore.
C21_IdStringParsesBack ==
    Normalized =>
        ParseToolName(last.ret.value.idString)
            = [serverName |-> last.arg.serverName,
               toolName |-> last.arg.tool.name]

\* C22: the arguments of a normalized entry are one per key of the schema's
\* properties map, in key order, and none unless the schema has type
\* "object" and a properties map; an argument has a description only if the
\* property's description is present and a string, and otherwise adds only
\* its name to searchableText.
C22_ArgsFollowProperties ==
    Normalized =>
        /\ last.ret.value.args = ArgsPerKey(last.arg.tool.inputSchema)
        /\ last.ret.value.searchableText
             = BuildSearchableText(last.arg.serverName, last.arg.tool,
                                   ArgsPerKey(last.arg.tool.inputSchema))

\* C23, as stated: searchableText is the space-joined idString, local name,
\* description (omitted when empty or absent), then for each argument its
\* name followed by its description (omitted when absent), and nothing else.
C23_SearchableTextAsStated ==
    Normalized =>
        last.ret.value.searchableText = ExpectedText(last.ret.value, FALSE)

\* C23, amended: searchableText is the space-joined idString, local name,
\* description (omitted when empty or absent), then for each argument its
\* name followed by its description (omitted when absent or empty), and
\* nothing else.
C23_SearchableTextOmitsEmpty ==
    Normalized =>
        last.ret.value.searchableText = ExpectedText(last.ret.value, TRUE)

\* an entry with a description, an argument whose description is the empty
\* string and an argument without description: "a_c c ab p q"
C23_Witness ==
    /\ Normalized
    /\ last.arg.serverName = <<"a">>
    /\ last.arg.tool.description = JsString(<<"a", "b">>)
    /\ last.ret.value.args
         = << [name |-> <<"p">>, description |-> <<>>], [name |-> <<"q">>] >>
    /\ last.ret.value.searchableText
         = <<"a", "_", "c", " ", "c", " ", "a", "b", " ", "p", " ", "q">>

\* C24: normalizeTool never throws; a schema that is absent, null, not of
\* type "object" or without a properties map gives an entry without
\* arguments, which has its idString and a searchableText of its idString,
\* name and description, so that it has tokens to be indexed by.
C24_MalformedSchemaGivesNoArgs ==
    last.op = "normalizeTool" =>
        /\ ~last.ret.thrown
        /\ ~HasPropertiesMap(last.arg.tool.inputSchema) =>
              /\ last.ret.value.args = <<>>
              /\ last.ret.value.idString
                   = last.arg.serverName \o <<"_">> \o last.arg.tool.name
              /\ last.ret.value.searchableText
                   = ExpectedText(last.ret.value, TRUE)
              /\ Tokenize(last.ret.value.searchableText) # <<>>

\* a tool whose schema is null has been normalized to an entry without
\* arguments
C24_Witness ==
    /\ Normalized
    /\ last.arg.tool.inputSchema = JsNull
    /\ last.ret.value.args = <<>>
    /\ last.ret.value.searchableText = <<"a", "_", "c", " ", "c">>


(***************************************************************************)
(* The manager's initialization.                                           *)
(***************************************************************************)

\* the retryAttempts the configuration asks for: the setting, or the
\* documented default when it is not set
RetryAttemptsAskedFor ==
    IF plugin.retryAttempts.t = "number" THEN plugin.retryAttempts.v
    ELSE DefaultRetryAttempts

\* C25: once initialization is complete the state is ready if and only if
\* every configured server is connected, and degraded otherwise; isComplete()
\* holds only in these two states and only when every configured server has
\* status connected or error.
C25_CompleteStateMatchesServers ==
    IsComplete(manager) =>
        /\ manager.initState = "ready"
             <=> \A n \in manager.configured :
                    /\ n \in DOMAIN manager.servers
                    /\ manager.servers[n].status = "connected"
        /\ \A n \in manager.configured :
              /\ n \in DOMAIN manager.servers
              /\ manager.servers[n].status \in {"connected", "error"}

\* C26: for each configured server the manager makes at most
\* retryAttempts + 1 connection attempts and none after one has succeeded,
\* and it marks the server as error, with the message of the last attempt,
\* and emits server:error only after that last attempt has failed.
C26_AttemptsWithinRetryAttempts ==
    \A id \in DOMAIN tasks :
        /\ tasks[id].attempt <= RetryAttemptsAskedFor + 1
        /\ tasks[id].step = "connected" =>
              tasks[id].marked = 0 /\ tasks[id].emitted = 0
        /\ tasks[id].step = "failed" <=> tasks[id].marked # 0
        /\ tasks[id].marked # 0 =>
              /\ tasks[id].attempt = RetryAttemptsAskedFor + 1
              /\ tasks[id].marked = tasks[id].attempt
              /\ tasks[id].emitted = tasks[id].attempt


(***************************************************************************)
(* The remote client's connect().                                          *)
(***************************************************************************)

\* C27: connect() attempts the streamable-HTTP transport first, and SSE
\* only after the streamable attempt has failed and its transport has been
\* closed; when connect() has succeeded getTransportType() names the
\* transport that connected; when both attempts have failed connect() has
\* thrown, every transport the attempts made has been closed and
\* getTransportType() is null.
C27_StreamableThenSse ==
    /\ remote.order \in {<<>>, <<"streamable">>, <<"streamable", "sse">>}
    /\ remote.sse # "none" => remote.streamable \in {"closed", "unmade"}
    /\ remote.outcome = "resolved" =>
          \/ /\ remote.transportType = "streamable-http"
             /\ remote.streamable = "connected"
             /\ remote.sse = "none"
          \/ /\ remote.transportType = "sse"
             /\ remote.sse = "connected"
    /\ remote.step = "idle" /\ remote.order = <<"streamable", "sse">>
          /\ remote.sse # "connected" =>
          /\ remote.outcome \in {"thrown", "closed"}
          /\ remote.transportType = "null"
          /\ remote.streamable \in {"closed", "unmade"}
          /\ remote.sse \in {"closed", "unmade"}

\* both attempts have failed: both transports are closed and connect() has
\* thrown
C27_Witness ==
    /\ remote.outcome = "thrown"
    /\ remote.order = <<"streamable", "sse">>
    /\ remote.streamable = "closed"
    /\ remote.sse = "closed"
    /\ remote.transportType = "null"


(***************************************************************************)
(* toolbox_execute.                                                        *)
(***************************************************************************)

\* the last call was toolbox_execute and it has returned
Executed == last.op = "toolbox_execute" /\ last.done

\* the call's server has no client
UnknownServer ==
    /\ IndexOfUnderscore(last.arg.toolId) # -1
    /\ ParseToolName(last.arg.toolId).serverName \notin DOMAIN manager.clients

\* the call left the execution counter and the servers alone
NothingExecuted ==
    /\ plugin.executionCount = last.pre.executionCount
    /\ plugin.serverCalls = last.pre.serverCalls

\* what C28 says of a call whose arguments are one of the texts of rejected
ExecuteFailsSafely(rejected) ==
    /\ plugin.executionSuccessCount <= plugin.executionCount
    /\ Executed =>
          /\ ~last.ret.thrown
          /\ IndexOfUnderscore(last.arg.toolId) = -1 =>
                ~last.ret.success /\ NothingExecuted
          /\ last.arg.arguments \in rejected =>
                ~last.ret.success /\ NothingExecuted
          /\ UnknownServer => ~last.ret.success
          /\ last.ret.call = "rejected" => ~last.ret.success

\* C28, as stated: toolbox_execute never throws; a tool id without an
\* underscore, arguments that are not valid JSON, an unknown server and a
\* failing tool call each give a result with success false, the first two
\* without a call to a server and without counting an execution; the
\* success counter never exceeds the execution counter.
C28_ExecuteFailsSafely ==
    ExecuteFailsSafely({a \in ArgumentsArgs :
                           a.t = "string" /\ ~JsonParses(a.v)})

\* C28, amended: the same, of arguments that are not empty and not valid
\* JSON.
C28_ExecuteFailsSafelyUnlessEmpty ==
    ExecuteFailsSafely({a \in ArgumentsArgs :
                           a.t = "string" /\ a.v # <<>> /\ ~JsonParses(a.v)})

\* after one successful execution, a call with the arguments "{" has
\* returned a failure and has counted nothing
C28_Witness ==
    /\ Executed
    /\ last.arg.arguments = JsString(<<"{">>)
    /\ IndexOfUnderscore(last.arg.toolId) # -1
    /\ last.ret = InvalidArguments
    /\ last.pre.executionSuccessCount = 1
    /\ plugin.executionCount = 1
    /\ plugin.serverCalls = 1


(***************************************************************************)
(* The chunked calls at their yield points.                                *)
(***************************************************************************)

\* a chunked add has just yielded between two chunks
AtYield == last.op \in ChunkedAdds /\ ~last.done

\* C29: at every yield point between the chunks of addToolsAsync or
\* indexToolsAsync the stored average is totalTokens / totalDocs of the
\* documents added so far, and a search run while the call is suspended
\* scores against that average.
C29_AverageCurrentAtYield ==
    /\ AtYield => AverageCurrent(index)
    /\ (last.op = "search" /\ pending.op # "none" /\ last.pre.totalDocs > 0)
          => last.pre.avgDocLength.num * last.pre.totalDocs
               = last.pre.totalTokens * last.pre.avgDocLength.den

\* every document of idx is an entry of tools
OnlyFrom(idx, tools) ==
    \A i \in 1..Len(idx.documents) : idx.documents[i].tool \in Range(tools)

C32_ReadyMeansConnected ==
    IsReady(manager) =>
        \E n \in ConnectedServers(manager) :
            Range(manager.servers[n].tools) \subseteq GetAllCatalogTools(manager)

\* the changes of initState the lifecycle allows, closeAll() apart
Forward ==
    { <<"idle", "initializing">>, <<"initializing", "partial">>,
      <<"initializing", "ready">>, <<"initializing", "degraded">>,
      <<"partial", "ready">>, <<"partial", "degraded">> }

\* C35: initState only moves idle -> initializing -> (partial) -> ready or
\* degraded, or back to idle when closeAll() resets it; and whenever the
\* state is idle no server and no client is registered, also after a
\* closeAll() that ran while connections were in flight.
C35_InitStateLifecycle ==
    [][ /\ manager'.initState # manager.initState =>
              \/ <<manager.initState, manager'.initState>> \in Forward
              \/ manager'.initState = "idle" /\ manager.closing
        /\ manager'.initState = "idle" =>
              manager'.servers = <<>> /\ manager'.clients = <<>>
      ]_vars

\* C39: no client whose connect() succeeded during initialization is left
\* open and unreferenced: it is registered in the client map or closed when
\* its attempt is given up, also when listTools fails or times out, when a
\* timed-out connect completes late, and when the attempt is retried.
C39_NoClientAbandoned ==
    \A id \in DOMAIN tasks : tasks[id].abandoned = 0

\* the tasks of the g-th initialize()
TasksOf(g) == {id \in DOMAIN tasks : id.g = g}

\* the g-th initialize() has emitted init:complete
Completed(g) ==
    g \in DOMAIN manager.completed /\ manager.completed[g] = 1

\* a step in which the g-th initialize() emits init:complete
EmitsComplete(g) ==
    /\ g \in DOMAIN manager.completed
    /\ manager'.completed[g] # manager.completed[g]

\* a step in which task id emits its server:connected or server:error
EmitsTerminal(id) ==
    /\ id \in DOMAIN tasks
    /\ tasks'[id].events # tasks[id].events

\* C31: each initialization emits init:complete exactly once: it does so
\* eventually, the step that does so is its first, and at that step every
\* configured server has a task that has emitted exactly one terminal event
\* (server:connected or server:error); a task emits its terminal event
\* once, and never after the init:complete of its initialization.
C31_CompleteOnceAfterAll ==
    /\ [][/\ \A g \in 1..(MaxCalls + 1) :
               EmitsComplete(g) =>
                  /\ manager.completed[g] = 0
                  /\ manager'.completed[g] = 1
                  /\ {id.name : id \in TasksOf(g)} = manager.configured
                  /\ \A id \in TasksOf(g) : tasks[id].events = 1
            /\ \A id \in PluginTaskIds :
               EmitsTerminal(id) =>
                  /\ tasks[id].events = 0
                  /\ tasks'[id].events = 1
                  /\ manager.completed[id.g] = 0]_vars
    /\ \A g \in 1..(MaxCalls + 1) :
          [](g \in DOMAIN manager.completed => <>Completed(g))

\* C31 witness: an initialization of two servers has emitted init:complete
\* after one server:connected and one server:error.
C31_Witness ==
    /\ manager.completed = <<1>>
    /\ Cardinality(TasksOf(1)) = 2
    /\ \E id \in TasksOf(1) : tasks[id].step = "connected"
    /\ \E id \in TasksOf(1) : tasks[id].step = "failed"
    /\ \A id \in TasksOf(1) : tasks[id].events = 1

\* a step that starts connection tasks
StartsTasks == DOMAIN tasks' # DOMAIN tasks

\* a step in which an initialize() returns the promise of a manager that is
\* not idle
ReturnsPromise == Len(plugin'.returned) # Len(plugin.returned)

\* C33: initialization starts at most once: a step that starts connection
\* tasks finds the manager idle and no task, and starts one task per
\* configured server; an initialize() call to a manager that is not idle
\* changes neither the manager nor the tasks and returns the promise of the
\* one initialization.  In lazy mode the step that starts the tasks is the
\* ensureInitialized() of a tool call, made after the plugin has loaded; in
\* eager mode it is the loading of the plugin, which ends with every
\* attempt still pending.
C33_InitializationStartsOnce ==
    [][/\ StartsTasks =>
            /\ manager.initState = "idle"
            /\ tasks = <<>>
            /\ DOMAIN tasks' = {TaskId(1, n) : n \in plugin.mcp}
            /\ IF plugin.initMode = LazyWord
               THEN /\ plugin.loaded
                    /\ manager'.initCallers = manager.initCallers + 1
               ELSE /\ ~plugin.loaded
                    /\ plugin'.loaded
                    /\ \A id \in DOMAIN tasks' : tasks'[id] = NewTask
       /\ ReturnsPromise =>
            /\ manager' = manager
            /\ tasks' = tasks
            /\ manager.initPromise = 1
            /\ plugin'.returned = Append(plugin.returned, 1)
       /\ (~plugin.loaded /\ plugin'.loaded) =>
            /\ DOMAIN tasks' = IF plugin.initMode = LazyWord THEN {}
                               ELSE {TaskId(1, n) : n \in plugin.mcp}
            /\ manager'.initState = IF plugin.initMode = LazyWord THEN "idle"
                                    ELSE "initializing"]_vars

\* C33 witness: in lazy mode two tool calls were made before any server
\* answered: the first started one task for each of the two servers and
\* awaits the init promise, the second waits for partial readiness.
C33_Witness ==
    /\ plugin.initMode = LazyWord
    /\ DOMAIN tasks = {TaskId(1, n) : n \in ServerNames}
    /\ \A id \in DOMAIN tasks : tasks[id] = NewTask
    /\ manager.initCallers = 1
    /\ manager.partialWaiters = 1

\* the idStrings that getAllCatalogTools() returns
CatalogIds == {t.idString : t \in GetAllCatalogTools(manager)}

\* C36: in the plugin the idStrings of the BM25 index are at every moment
\* those that getAllCatalogTools() returns, so that a tool handler, whenever
\* it runs, finds the same tools by regex and by BM25 search; the tools of
\* a server that is connecting or has failed are in neither.
C36_IndexMatchesCatalog == DocIds(index) = CatalogIds

\* C36 witness: a tool call is about to run its handler while one server is
\* connected, with its tools indexed, and the other has failed.
C36_Witness ==
    /\ manager.resolved > 0
    /\ \E n \in DOMAIN manager.servers : manager.servers[n].status = "error"
    /\ \E n \in ConnectedServers(manager) :
          /\ ListedTools(n) # <<>>
          /\ DocIds(index) =
               {t.idString : t \in Range(NormalizeTools(n, ListedTools(n)))}

\* every waitForPartial() made once the initialization has been started, or
\* made before a later initialize(), resolves: while one is pending, no
\* server is connected unless the initialization is about to complete, and
\* eventually none is pending
PartialWaitsResolve ==
    /\ [](manager.partialWaiters > 0 =>
             \/ ConnectedServers(manager) = {}
             \/ AllReturned(manager.inits))
    /\ [](manager.partialWaiters > 0 /\ NotIdle(manager) =>
             <>(manager.partialWaiters = 0))

\* every waitForReady() that awaits the init promise resumes
ReadyWaitsResolve ==
    [](plugin.readyWaiters > 0 => <>(plugin.readyWaiters = 0))

PairResolved == pending.made = 2 /\ pending.running = <<>>

\* C37: when two addToolsAsync calls whose entries overlap have both
\* resolved, however their turns interleaved, every idString has one
\* document, and totalDocs, totalTokens and every document frequency are
\* those of one addToolsBatch over the entries of both calls.
C37_PairAddsEachOnce ==
    PairResolved =>
       LET batch == AddToolsBatchOp(pending.start, pending.entries)
       IN  /\ Len(index.documents) = Cardinality(DocIds(index))
           /\ DocIds(index) = DocIds(batch)
           /\ index.totalDocs = batch.totalDocs
           /\ index.totalTokens = batch.totalTokens
           /\ index.docFreqs = batch.docFreqs

\* C37 witness: two calls with the entries of both tools in opposite order
\* and chunk size 1 ran their turns alternately, and both have resolved.
C37_Witness ==
    /\ PairResolved
    /\ pending.start = EmptyIndex
    /\ pending.entries = <<ToolA, ToolB, ToolB, ToolA>>
    /\ pending.order = <<1, 2, 1, 2>>

\* C38: with any chunk size, a call of addToolsAsync or indexToolsAsync
\* that the scheduler resumes after each yield eventually resolves, and when
\* it has resolved every entry of its list is indexed.
C38_AsyncResolves ==
    /\ [](pending.op # "none" => <>(pending.op = "none"))
    /\ [](pending.op = "none" =>
             \A i \in 1..Len(pending.tools) :
                Has(index, pending.tools[i].idString))

=============================================================================
